---- MODULE Spec2Model ----
(***************************************************************************)
(* Model of the quartz-operator pre-cluster-destroy cleanup:               *)
(*   - the services package (LookupService, ScaleService, DeleteService,   *)
(*     CleanupService, UpdateService), and                                 *)
(*   - PreClusterDestroyCleanupReconciler.Reconcile with the item loop     *)
(*     and the helpers it carries inline.                                  *)
(* The object store and the REST mapper are the Kubernetes API: a store    *)
(* call fails when its target is absent, or when the fault plan of the     *)
(* step says so (transport error, cancellation).                           *)
(***************************************************************************)
EXTENDS Integers, Sequences, FiniteSets, TLC

VARIABLES
    impl,       \* which entry point runs: "Reconcile" | "CleanupItems" | "UpdateCondition"
    pc,         \* position of the running call
    store,      \* cleanup targets: Keys -> [exists, replicas]
    store0,     \* the store when the pass started (history)
    objExists,  \* the PreClusterDestroyCleanup object is in the API server
    spec,       \* obj.Spec: [DryRun, Resources]
    persisted,  \* Status.Conditions of the object in the API server
    obj,        \* Status.Conditions of the in-memory object of the running call
    idx,        \* index of the next item of the loop
    count,      \* count accumulated by the loop
    errs,       \* errs accumulated by the loop (messages)
    log,        \* per item: what the loop did with it (history)
    writes,     \* condition writes attempted by the running call (history)
    ret,        \* what the call returned: [done, count, err]
    prev,       \* what the passes before the running one did (history)
    faulty,     \* calls on the API server may still fail
    list,       \* list.Items of the running DeleteResources call
    external    \* what other clients did to the store during the call (history)

vars == <<impl, pc, store, store0, objExists, spec, persisted, obj, idx, count, errs, log, writes, ret,
         prev, faulty, list, external>>

----------------------------------------------------------------------------
(* Bounds *)

MaxItems == 2       \* longest Resources list
MaxFaults == 1      \* store calls that fail inside one step
MaxWrites == 3      \* UpdateCondition calls in a sequence of writes
MaxExternal == 2    \* creations and removals by other clients during one DeleteResources call

(* Program constants *)

InitialReplicas == 3

ActionDelete == "delete"
ActionScaleToZero == "scaleToZero"
ActionUnknown == ""

DeploymentKind == "Deployment"
StatefulSetKind == "StatefulSet"
CustomResourceDefinitionKind == "CustomResourceDefinition"

----------------------------------------------------------------------------
(* Go values *)

\* error: nil, or an error with its message
Nil == [nil |-> TRUE, msg |-> ""]
Errorf(m) == [nil |-> FALSE, msg |-> m]

\* *int32: <<>> is nil, <<n>> points to n
NilPtr == <<>>
Int32Ptr(n) == <<n>>

\* strings.Contains
Contains(s, t) == \E i \in 1..(Len(s) - Len(t) + 1) : SubSeq(s, i, i + Len(t) - 1) = t

\* strings.Index of a one-character separator, 0 when absent
RECURSIVE IndexFrom(_, _, _)
IndexFrom(s, c, i) ==
    IF i > Len(s) THEN 0
    ELSE IF SubSeq(s, i, i) = c THEN i
    ELSE IndexFrom(s, c, i + 1)

LowerChar(c) ==
    CASE c = "A" -> "a" [] c = "B" -> "b" [] c = "C" -> "c" [] c = "D" -> "d"
      [] c = "E" -> "e" [] c = "F" -> "f" [] c = "G" -> "g" [] c = "H" -> "h"
      [] c = "I" -> "i" [] c = "J" -> "j" [] c = "K" -> "k" [] c = "L" -> "l"
      [] c = "M" -> "m" [] c = "N" -> "n" [] c = "O" -> "o" [] c = "P" -> "p"
      [] c = "Q" -> "q" [] c = "R" -> "r" [] c = "S" -> "s" [] c = "T" -> "t"
      [] c = "U" -> "u" [] c = "V" -> "v" [] c = "W" -> "w" [] c = "X" -> "x"
      [] c = "Y" -> "y" [] c = "Z" -> "z" [] OTHER -> c

RECURSIVE ToLower(_)
ToLower(s) == IF s = "" THEN "" ELSE LowerChar(SubSeq(s, 1, 1)) \o ToLower(SubSeq(s, 2, Len(s)))

\* strings.EqualFold
EqualFold(a, b) == ToLower(a) = ToLower(b)

\* errors.Join: nil for no errors, else the messages joined by newlines
RECURSIVE JoinMsgs(_)
JoinMsgs(ms) ==
    IF Len(ms) = 1 THEN ms[1] ELSE ms[1] \o "\n" \o JoinMsgs(Tail(ms))

Join(ms) == IF ms = <<>> THEN Nil ELSE Errorf(JoinMsgs(ms))

\* fmt's %v of a PreClusterDestroyCleanupItem
FormatItem(item) ==
    "{" \o item.Kind \o " " \o item.Namespace \o " " \o item.Name \o " "
        \o item.Category \o " " \o item.Action \o "}"

----------------------------------------------------------------------------
(* The cluster: type catalog, extension type definitions, object store *)

Key(kind, ns, name) == [kind |-> kind, ns |-> ns, name |-> name]

\* instances the store can hold, in the order a List returns them
KeySeq == << Key("Deployment", "ns1", "d1"),
             Key("Deployment", "ns1", "d2"),
             Key("StatefulSet", "ns1", "s1"),
             Key("Widget", "ns1", "w1"),
             Key("Widget", "ns1", "w2"),
             Key("Gadget", "ns1", "g1") >>

Keys == {KeySeq[i] : i \in 1..Len(KeySeq)}

\* the REST mapper's types
Catalog == {
    [Group |-> "apps", Version |-> "v1", Kind |-> "Deployment",
     Singular |-> "deployment", Plural |-> "deployments"],
    [Group |-> "apps", Version |-> "v1", Kind |-> "StatefulSet",
     Singular |-> "statefulset", Plural |-> "statefulsets"],
    [Group |-> "", Version |-> "v1", Kind |-> "Service",
     Singular |-> "service", Plural |-> "services"],
    [Group |-> "apiextensions.k8s.io", Version |-> "v1", Kind |-> "CustomResourceDefinition",
     Singular |-> "customresourcedefinition", Plural |-> "customresourcedefinitions"],
    [Group |-> "example.com", Version |-> "v1", Kind |-> "Widget",
     Singular |-> "widget", Plural |-> "widgets"],
    [Group |-> "example.com", Version |-> "v1", Kind |-> "Gadget",
     Singular |-> "gadget", Plural |-> "gadgets"] }

\* the CustomResourceDefinitions of the cluster, in list order
Crds == << [Group |-> "example.com", Versions |-> <<"v1", "v1beta1">>, Kind |-> "Widget",
            Categories |-> <<"Managed", "all">>],
          [Group |-> "example.com", Versions |-> <<"v1">>, Kind |-> "Gadget",
            Categories |-> <<"managed">>] >>

GVK(g, v, k) == [Group |-> g, Version |-> v, Kind |-> k]
EmptyGVK == GVK("", "", "")

\* one store call of a step: get, list, delete, update on a key; a list's key has no name
Call(op, key) == [op |-> op, key |-> key]

\* the sets of at most n of the calls P: the calls of one step that fail
RECURSIVE PlansUpTo(_, _)
PlansUpTo(P, n) ==
    IF n = 0 THEN {{}}
    ELSE LET Q == PlansUpTo(P, n - 1) IN Q \cup {F \cup {p} : F \in Q, p \in P}

Exists(s, k) == k \in Keys /\ s[k].exists

\* client.Get: nil, or the error of the store
StoreGet(F, s, k) ==
    IF Call("get", k) \in F THEN Errorf("store error")
    ELSE IF ~Exists(s, k) THEN Errorf("not found")
    ELSE Nil

\* client.Delete: the error and the store after the call
StoreDelete(F, s, k) ==
    IF Call("delete", k) \in F THEN [err |-> Errorf("store error"), store |-> s]
    ELSE IF ~Exists(s, k) THEN [err |-> Errorf("not found"), store |-> s]
    ELSE [err |-> Nil, store |-> [s EXCEPT ![k] = [exists |-> FALSE, replicas |-> NilPtr]]]

\* client.Update of an object whose Spec.Replicas was set
StoreUpdate(F, s, k, replicas) ==
    IF Call("update", k) \in F THEN [err |-> Errorf("store error"), store |-> s]
    ELSE IF ~Exists(s, k) THEN [err |-> Errorf("not found"), store |-> s]
    ELSE [err |-> Nil, store |-> [s EXCEPT ![k].replicas = replicas]]

\* client.List in a namespace ("" lists every namespace)
StoreList(F, s, kind, ns) ==
    IF Call("list", Key(kind, "", "")) \in F
    THEN [err |-> Errorf("store error"), items |-> <<>>]
    ELSE [err |-> Nil,
          items |-> SelectSeq(KeySeq, LAMBDA k :
                        s[k].exists /\ k.kind = kind /\ (ns = "" \/ k.ns = ns))]

----------------------------------------------------------------------------
(* LookupService *)

\* mapper.KindFor(GroupVersionResource{Resource: kind}): the resource name is
\* lower-cased and matched against the singular and plural resource names
KindFor(resource) ==
    LET r == ToLower(resource)
        hits == {t \in Catalog : t.Singular = r \/ t.Plural = r}
    IN IF hits = {} THEN [ok |-> FALSE, gvk |-> EmptyGVK]
       ELSE LET t == CHOOSE t \in hits : TRUE
            IN [ok |-> TRUE, gvk |-> GVK(t.Group, t.Version, t.Kind)]

\* schema.ParseGroupKind: "Kind.group" splits at the first dot
ParseGroupKind(gk) ==
    LET i == IndexFrom(gk, ".", 1)
    IN IF i = 0 THEN [Kind |-> gk, Group |-> ""]
       ELSE [Kind |-> SubSeq(gk, 1, i - 1), Group |-> SubSeq(gk, i + 1, Len(gk))]

\* mapper.RESTMapping(gk)
RESTMapping(gk) ==
    LET hits == {t \in Catalog : t.Kind = gk.Kind /\ t.Group = gk.Group}
    IN IF hits = {} THEN [ok |-> FALSE, gvk |-> EmptyGVK]
       ELSE LET t == CHOOSE t \in hits : TRUE
            IN [ok |-> TRUE, gvk |-> GVK(t.Group, t.Version, t.Kind)]

LookupGroupKind_DirectOnly(F, kind) ==
    IF Call("lookup", Key("", "", "")) \in F
    THEN [gvk |-> EmptyGVK,
          err |-> Errorf("failed to find mapping for kind " \o kind \o ": store error")]
    ELSE LET k == KindFor(kind) IN
         IF k.ok THEN [gvk |-> k.gvk, err |-> Nil]
         ELSE [gvk |-> EmptyGVK,
               err |-> Errorf("failed to find mapping for kind " \o kind \o ": no matches for kind")]

LookupGroupKind(F, kind) ==
    IF Call("lookup", Key("", "", "")) \in F
    THEN [gvk |-> EmptyGVK,
          err |-> Errorf("failed to find mapping for kind " \o kind \o ": store error")]
    ELSE LET k == KindFor(kind) IN
         IF k.ok THEN [gvk |-> k.gvk, err |-> Nil]
         ELSE LET m == RESTMapping(ParseGroupKind(kind)) IN
              IF m.ok THEN [gvk |-> m.gvk, err |-> Nil]
              ELSE [gvk |-> EmptyGVK,
                    err |-> Errorf("failed to find mapping for kind " \o kind \o ": no matches for kind")]

\* slices.ContainsFunc(crd.Spec.Names.Categories, EqualFold(c, category))
HasCategory(crd, category) ==
    \E i \in 1..Len(crd.Categories) : EqualFold(crd.Categories[i], category)

RECURSIVE CrdMatches_LastVersion(_, _)
CrdMatches_LastVersion(crds, category) ==
    IF crds = <<>> THEN <<>>
    ELSE (IF HasCategory(Head(crds), category)
          THEN << GVK(Head(crds).Group, Head(crds).Versions[Len(Head(crds).Versions)], Head(crds).Kind) >>
          ELSE <<>>) \o CrdMatches_LastVersion(Tail(crds), category)

RECURSIVE CrdMatches(_, _)
CrdMatches(crds, category) ==
    IF crds = <<>> THEN <<>>
    ELSE (IF HasCategory(Head(crds), category)
          THEN << GVK(Head(crds).Group, Head(crds).Versions[1], Head(crds).Kind) >>
          ELSE <<>>) \o CrdMatches(Tail(crds), category)

LookupCrdsByCategory(F, category) ==
    IF Call("crds", Key("", "", "")) \in F
    THEN [gvks |-> <<>>, err |-> Errorf("failed to list CRDs: store error")]
    ELSE [gvks |-> CrdMatches(Crds, category), err |-> Nil]

ListResources(F, s, gvk, ns) ==
    LET l == StoreList(F, s, gvk.Kind, ns) IN
    IF ~l.err.nil
    THEN [items |-> <<>>,
          err |-> Errorf("failed to list " \o gvk.Kind \o " in namespace " \o ns \o ": " \o l.err.msg)]
    ELSE [items |-> l.items, err |-> Nil]

\* the kinds an item is aimed at: the kinds of its category for a category item, else
\* the kind its Kind resolves to
TargetKinds(item) ==
    LET kind == LookupGroupKind({}, item.Kind).gvk.Kind
        gvks == CrdMatches(Crds, item.Category)
    IN IF kind = CustomResourceDefinitionKind /\ item.Category # ""
       THEN {gvks[i].Kind : i \in 1..Len(gvks)}
       ELSE {kind}

\* a category item: every instance of its kinds in its namespace
IsCategoryItem(item) ==
    LookupGroupKind({}, item.Kind).gvk.Kind = CustomResourceDefinitionKind /\ item.Category # ""

\* the instances an item is aimed at: the named one, or every one of its kinds in its namespace
Targets(item) ==
    IF item.Name # "" /\ ~IsCategoryItem(item)
    THEN {Key(kind, item.Namespace, item.Name) : kind \in TargetKinds(item)}
    ELSE {k \in Keys : k.kind \in TargetKinds(item)
                       /\ (item.Namespace = "" \/ k.ns = item.Namespace)}

\* the calls the step of an item can make, each of which can fail: the lookup of its
\* Kind, then for a scaleToZero item a List or a Get followed by Get and Update on its
\* targets, and for any other action the calls of a delete: the listing of the
\* extension types, a List or a Get, and Delete on its targets
FaultPoints(item) ==
    IF item.Kind = "" THEN {}
    ELSE IF item.Action = "" THEN {Call("lookup", Key("", "", ""))}
    ELSE IF item.Action = ActionScaleToZero
    THEN {Call("lookup", Key("", "", ""))}
            \cup (IF item.Name = ""
                  THEN {Call("list", Key(kind, "", "")) : kind \in TargetKinds(item)} ELSE {})
            \cup {Call(op, k) : op \in {"get", "update"}, k \in Targets(item)}
    ELSE {Call("lookup", Key("", "", ""))}
            \cup (IF IsCategoryItem(item) THEN {Call("crds", Key("", "", ""))} ELSE {})
            \cup (IF item.Name = "" \/ IsCategoryItem(item)
                  THEN {Call("list", Key(kind, "", "")) : kind \in TargetKinds(item)}
                  ELSE {Call("get", k) : k \in Targets(item)})
            \cup {Call("delete", k) : k \in Targets(item)}

FaultPlans(item) == PlansUpTo(FaultPoints(item), MaxFaults)

\* what an executor returns: (count, err), the store it leaves and the store calls it made
Result(c, e, s, calls) == [count |-> c, err |-> e, store |-> s, calls |-> calls]

ListCall(gvk, ns) == Call("list", Key(gvk.Kind, ns, ""))

----------------------------------------------------------------------------
(* ScaleService *)

ScaleDeployment_RejectUnchanged(F, s, dryRun, ns, name, replicas) ==
    LET k == Key(DeploymentKind, ns, name) IN
    IF name = "" THEN Result(0, Nil, s, {})
    ELSE IF dryRun THEN Result(1, Nil, s, {})
    ELSE LET g == StoreGet(F, s, k) IN
         IF ~g.nil THEN Result(0, Errorf("failed to get " \o ns \o "/" \o name \o ": " \o g.msg), s, {Call("get", k)})
         ELSE IF s[k].replicas = replicas
              THEN Result(0, Errorf("failed to scale " \o ns \o "/" \o name \o ": unchanged"), s,
                          {Call("get", k)})
              ELSE LET u == StoreUpdate(F, s, k, replicas) IN
                   IF ~u.err.nil
                   THEN Result(0, Errorf("failed to scale " \o ns \o "/" \o name \o ": " \o u.err.msg), s,
                               {Call("get", k), Call("update", k)})
                   ELSE Result(1, Nil, u.store, {Call("get", k), Call("update", k)})

ScaleDeployment(F, s, dryRun, ns, name, replicas) ==
    LET k == Key(DeploymentKind, ns, name) IN
    IF name = "" THEN Result(0, Nil, s, {})
    ELSE IF dryRun THEN Result(1, Nil, s, {})
    ELSE LET g == StoreGet(F, s, k) IN
         IF ~g.nil THEN Result(0, Errorf("failed to get " \o ns \o "/" \o name \o ": " \o g.msg), s, {Call("get", k)})
         ELSE LET u == StoreUpdate(F, s, k, replicas) IN
              IF ~u.err.nil
              THEN Result(0, Errorf("failed to scale " \o ns \o "/" \o name \o ": " \o u.err.msg), s,
                          {Call("get", k), Call("update", k)})
              ELSE Result(1, Nil, u.store, {Call("get", k), Call("update", k)})

ScaleStatefulSet(F, s, dryRun, ns, name, replicas) ==
    LET k == Key(StatefulSetKind, ns, name) IN
    IF name = "" THEN Result(0, Nil, s, {})
    ELSE IF dryRun THEN Result(1, Nil, s, {})
    ELSE LET g == StoreGet(F, s, k) IN
         IF ~g.nil THEN Result(0, Errorf("failed to get " \o ns \o "/" \o name \o ": " \o g.msg), s, {Call("get", k)})
         ELSE LET u == StoreUpdate(F, s, k, replicas) IN
              IF ~u.err.nil
              THEN Result(0, Errorf("failed to scale " \o ns \o "/" \o name \o ": " \o u.err.msg), s,
                          {Call("get", k), Call("update", k)})
              ELSE Result(1, Nil, u.store, {Call("get", k), Call("update", k)})

ScaleKind(F, s, dryRun, gvk, ns, name, replicas) ==
    CASE gvk.Kind = DeploymentKind -> ScaleDeployment(F, s, dryRun, ns, name, replicas)
      [] gvk.Kind = StatefulSetKind -> ScaleStatefulSet(F, s, dryRun, ns, name, replicas)
      [] OTHER -> Result(0, Errorf("replica scaling is not supported for kind " \o gvk.Kind), s, {})

RECURSIVE ScaleLoop_StopAtFailure(_, _, _, _, _, _)
ScaleLoop_StopAtFailure(F, dryRun, gvk, items, replicas, acc) ==
    IF items = <<>> THEN acc
    ELSE LET i == Head(items)
             r == ScaleKind(F, acc.store, dryRun, gvk, i.ns, i.name, replicas)
         IN IF r.err.nil
            THEN ScaleLoop_StopAtFailure(F, dryRun, gvk, Tail(items), replicas,
                     [count |-> acc.count + r.count, errs |-> acc.errs, store |-> r.store,
                      calls |-> acc.calls \cup r.calls])
            ELSE [count |-> acc.count + r.count,
                  errs  |-> Append(acc.errs, "failed to scale " \o i.ns \o "/" \o i.name \o ": " \o r.err.msg),
                  store |-> r.store,
                  calls |-> acc.calls \cup r.calls]

\* the loop of ScaleItem over list.Items: acc is (count, errs, store, calls) so far
RECURSIVE ScaleLoop(_, _, _, _, _, _)
ScaleLoop(F, dryRun, gvk, items, replicas, acc) ==
    IF items = <<>> THEN acc
    ELSE LET i == Head(items)
             r == ScaleKind(F, acc.store, dryRun, gvk, i.ns, i.name, replicas)
         IN ScaleLoop(F, dryRun, gvk, Tail(items), replicas,
                [count |-> acc.count + r.count,
                 errs  |-> IF r.err.nil THEN acc.errs
                           ELSE Append(acc.errs, "failed to scale " \o i.ns \o "/" \o i.name \o ": " \o r.err.msg),
                 store |-> r.store,
                 calls |-> acc.calls \cup r.calls])

ScaleItem_NoKindCheck(F, s, dryRun, gvk, item, replicas) ==
    IF item.Name # ""
    THEN LET r == ScaleKind(F, s, dryRun, gvk, item.Namespace, item.Name, replicas) IN
         IF ~r.err.nil
         THEN Result(0, Errorf("failed to scale " \o item.Namespace \o "/" \o item.Name \o ": " \o r.err.msg),
                     r.store, r.calls)
         ELSE Result(r.count, Nil, r.store, r.calls)
    ELSE LET l == ListResources(F, s, gvk, item.Namespace) IN
         IF ~l.err.nil
         THEN Result(0, Errorf("failed to list resources of kind " \o gvk.Kind \o " in namespace "
                               \o item.Namespace \o ": " \o l.err.msg), s, {ListCall(gvk, item.Namespace)})
         ELSE IF Len(l.items) = 0 THEN Result(0, Nil, s, {ListCall(gvk, item.Namespace)})
         ELSE LET a == ScaleLoop(F, dryRun, gvk, l.items, replicas,
                           [count |-> 0, errs |-> <<>>, store |-> s,
                            calls |-> {ListCall(gvk, item.Namespace)}])
              IN Result(a.count, Join(a.errs), a.store, a.calls)

ScaleItem(F, s, dryRun, gvk, item, replicas) ==
    IF gvk.Kind # DeploymentKind /\ gvk.Kind # StatefulSetKind
    THEN Result(0, Errorf("scaling is not supported for kind " \o gvk.Kind), s, {})
    ELSE IF item.Name # ""
    THEN LET r == ScaleKind(F, s, dryRun, gvk, item.Namespace, item.Name, replicas) IN
         IF ~r.err.nil
         THEN Result(0, Errorf("failed to scale " \o item.Namespace \o "/" \o item.Name \o ": " \o r.err.msg),
                     r.store, r.calls)
         ELSE Result(r.count, Nil, r.store, r.calls)
    ELSE LET l == ListResources(F, s, gvk, item.Namespace) IN
         IF ~l.err.nil
         THEN Result(0, Errorf("failed to list resources of kind " \o gvk.Kind \o " in namespace "
                               \o item.Namespace \o ": " \o l.err.msg), s, {ListCall(gvk, item.Namespace)})
         ELSE IF Len(l.items) = 0 THEN Result(0, Nil, s, {ListCall(gvk, item.Namespace)})
         ELSE LET a == ScaleLoop(F, dryRun, gvk, l.items, replicas,
                           [count |-> 0, errs |-> <<>>, store |-> s,
                            calls |-> {ListCall(gvk, item.Namespace)}])
              IN Result(a.count, Join(a.errs), a.store, a.calls)

----------------------------------------------------------------------------
(* DeleteService *)

DeleteNamedResource_DryRunFirst(F, s, dryRun, gvk, ns, name) ==
    LET k == Key(gvk.Kind, ns, name)
        g == StoreGet(F, s, k)
    IN IF dryRun THEN Result(1, Nil, s, {})
       ELSE IF ~g.nil
       THEN Result(0, Errorf("failed to get " \o ns \o "/" \o name \o ": " \o g.msg), s, {Call("get", k)})
       ELSE LET d == StoreDelete(F, s, k) IN
            IF ~d.err.nil
            THEN Result(0, Errorf("failed to delete " \o ns \o "/" \o name \o ": " \o d.err.msg), s,
                        {Call("get", k), Call("delete", k)})
            ELSE Result(1, Nil, d.store, {Call("get", k), Call("delete", k)})

DeleteNamedResource_WholeKind(F, s, dryRun, gvk, ns, name) ==
    LET k == Key(gvk.Kind, ns, name)
        g == StoreGet(F, s, k)
    IN IF ~g.nil
       THEN Result(0, Errorf("failed to get " \o ns \o "/" \o name \o ": " \o g.msg), s, {Call("get", k)})
       ELSE IF dryRun THEN Result(1, Nil, s, {Call("get", k)})
       ELSE LET d == StoreDelete(F, s, k) IN
            IF ~d.err.nil
            THEN Result(0, Errorf("failed to delete " \o ns \o "/" \o name \o ": " \o d.err.msg), s,
                        {Call("get", k), Call("delete", k)})
            ELSE Result(1, Nil,
                        [x \in Keys |-> IF x.kind = k.kind /\ x.ns = k.ns
                                        THEN [exists |-> FALSE, replicas |-> NilPtr] ELSE s[x]],
                        {Call("get", k), Call("delete", k)})

DeleteNamedResource_IgnoreNotFound(F, s, dryRun, gvk, ns, name) ==
    LET k == Key(gvk.Kind, ns, name)
        g == StoreGet(F, s, k)
    IN IF ~g.nil /\ g.msg = "not found" THEN Result(0, Nil, s, {Call("get", k)})
       ELSE IF ~g.nil
       THEN Result(0, Errorf("failed to get " \o ns \o "/" \o name \o ": " \o g.msg), s, {Call("get", k)})
       ELSE IF dryRun THEN Result(1, Nil, s, {Call("get", k)})
       ELSE LET d == StoreDelete(F, s, k) IN
            IF ~d.err.nil
            THEN Result(0, Errorf("failed to delete " \o ns \o "/" \o name \o ": " \o d.err.msg), s,
                        {Call("get", k), Call("delete", k)})
            ELSE Result(1, Nil, d.store, {Call("get", k), Call("delete", k)})

DeleteNamedResource(F, s, dryRun, gvk, ns, name) ==
    LET k == Key(gvk.Kind, ns, name)
        g == StoreGet(F, s, k)
    IN IF ~g.nil
       THEN Result(0, Errorf("failed to get " \o ns \o "/" \o name \o ": " \o g.msg), s, {Call("get", k)})
       ELSE IF dryRun THEN Result(1, Nil, s, {Call("get", k)})
       ELSE LET d == StoreDelete(F, s, k) IN
            IF ~d.err.nil
            THEN Result(0, Errorf("failed to delete " \o ns \o "/" \o name \o ": " \o d.err.msg), s,
                        {Call("get", k), Call("delete", k)})
            ELSE Result(1, Nil, d.store, {Call("get", k), Call("delete", k)})

RECURSIVE DeleteLoop_StopAtFailure(_, _, _)
DeleteLoop_StopAtFailure(F, items, acc) ==
    IF items = <<>> THEN acc
    ELSE LET i == Head(items)
             d == StoreDelete(F, acc.store, i)
         IN IF d.err.nil
            THEN DeleteLoop_StopAtFailure(F, Tail(items),
                     [count |-> acc.count + 1, errs |-> acc.errs, store |-> d.store,
                      calls |-> acc.calls \cup {Call("delete", i)}])
            ELSE [count |-> acc.count,
                  errs  |-> Append(acc.errs, "failed to delete " \o i.ns \o "/" \o i.name \o ": " \o d.err.msg),
                  store |-> d.store,
                  calls |-> acc.calls \cup {Call("delete", i)}]

\* the loop of DeleteResources over list.Items
RECURSIVE DeleteLoop(_, _, _)
DeleteLoop(F, items, acc) ==
    IF items = <<>> THEN acc
    ELSE LET i == Head(items)
             d == StoreDelete(F, acc.store, i)
         IN DeleteLoop(F, Tail(items),
                [count |-> IF d.err.nil THEN acc.count + 1 ELSE acc.count,
                 errs  |-> IF d.err.nil THEN acc.errs
                           ELSE Append(acc.errs, "failed to delete " \o i.ns \o "/" \o i.name \o ": " \o d.err.msg),
                 store |-> d.store,
                 calls |-> acc.calls \cup {Call("delete", i)}])

DeleteResources_EmptyIsError(F, s, dryRun, gvk, ns) ==
    LET l == ListResources(F, s, gvk, ns) IN
    IF ~l.err.nil
    THEN Result(0, Errorf("failed to list resources of kind " \o gvk.Kind \o " in namespace " \o ns
                          \o ": " \o l.err.msg), s, {ListCall(gvk, ns)})
    ELSE IF Len(l.items) = 0
    THEN Result(0, Errorf("no resources of kind " \o gvk.Kind \o " in namespace " \o ns), s,
                {ListCall(gvk, ns)})
    ELSE IF dryRun THEN Result(Len(l.items), Nil, s, {ListCall(gvk, ns)})
    ELSE LET a == DeleteLoop(F, l.items,
                      [count |-> 0, errs |-> <<>>, store |-> s, calls |-> {ListCall(gvk, ns)}])
         IN Result(a.count, Join(a.errs), a.store, a.calls)

DeleteResources_IgnoreDryRun(F, s, dryRun, gvk, ns) ==
    LET l == ListResources(F, s, gvk, ns) IN
    IF ~l.err.nil
    THEN Result(0, Errorf("failed to list resources of kind " \o gvk.Kind \o " in namespace " \o ns
                          \o ": " \o l.err.msg), s, {ListCall(gvk, ns)})
    ELSE IF Len(l.items) = 0 THEN Result(0, Nil, s, {ListCall(gvk, ns)})
    ELSE LET a == DeleteLoop(F, l.items,
                      [count |-> 0, errs |-> <<>>, store |-> s, calls |-> {ListCall(gvk, ns)}])
         IN Result(a.count, Join(a.errs), a.store, a.calls)

DeleteResources(F, s, dryRun, gvk, ns) ==
    LET l == ListResources(F, s, gvk, ns) IN
    IF ~l.err.nil
    THEN Result(0, Errorf("failed to list resources of kind " \o gvk.Kind \o " in namespace " \o ns
                          \o ": " \o l.err.msg), s, {ListCall(gvk, ns)})
    ELSE IF Len(l.items) = 0 THEN Result(0, Nil, s, {ListCall(gvk, ns)})
    ELSE IF dryRun THEN Result(Len(l.items), Nil, s, {ListCall(gvk, ns)})
    ELSE LET a == DeleteLoop(F, l.items,
                      [count |-> 0, errs |-> <<>>, store |-> s, calls |-> {ListCall(gvk, ns)}])
         IN Result(a.count, Join(a.errs), a.store, a.calls)

\* the loop of DeleteItem over the types of a category
RECURSIVE DeleteCategoryLoop(_, _, _, _, _)
DeleteCategoryLoop(F, dryRun, gvks, ns, acc) ==
    IF gvks = <<>> THEN acc
    ELSE LET g == Head(gvks)
             r == DeleteResources(F, acc.store, dryRun, g, ns)
         IN DeleteCategoryLoop(F, dryRun, Tail(gvks), ns,
                [count |-> IF r.err.nil THEN acc.count + r.count ELSE acc.count,
                 errs  |-> IF r.err.nil THEN acc.errs
                           ELSE Append(acc.errs, "failed to cleanup resources of kind " \o g.Kind
                                    \o " in namespace " \o ns \o ": " \o r.err.msg),
                 store |-> r.store,
                 calls |-> acc.calls \cup r.calls])

DeleteItem_EmptyCategoryOk(F, s, dryRun, gvk, item) ==
    IF gvk.Kind = CustomResourceDefinitionKind /\ item.Category # ""
    THEN LET c == LookupCrdsByCategory(F, item.Category) IN
         IF ~c.err.nil
         THEN Result(0, Errorf("failed to lookup CRDs by category " \o item.Category \o ": " \o c.err.msg), s, {})
         ELSE LET a == DeleteCategoryLoop(F, dryRun, c.gvks, item.Namespace,
                           [count |-> 0, errs |-> <<>>, store |-> s, calls |-> {}])
              IN Result(a.count, Join(a.errs), a.store, a.calls)
    ELSE IF item.Name = ""
    THEN LET r == DeleteResources(F, s, dryRun, gvk, item.Namespace) IN
         IF ~r.err.nil
         THEN Result(r.count, Errorf("failed to cleanup resources of kind " \o item.Kind \o " in namespace "
                                     \o item.Namespace \o ": " \o r.err.msg), r.store, r.calls)
         ELSE r
    ELSE LET r == DeleteNamedResource(F, s, dryRun, gvk, item.Namespace, item.Name) IN
         IF ~r.err.nil
         THEN Result(r.count, Errorf("failed to cleanup named resource " \o item.Namespace \o "/"
                                     \o item.Name \o ": " \o r.err.msg), r.store, r.calls)
         ELSE r

DeleteItem_NameBeforeCategory(F, s, dryRun, gvk, item) ==
    IF item.Name # ""
    THEN LET r == DeleteNamedResource(F, s, dryRun, gvk, item.Namespace, item.Name) IN
         IF ~r.err.nil
         THEN Result(r.count, Errorf("failed to cleanup named resource " \o item.Namespace \o "/"
                                     \o item.Name \o ": " \o r.err.msg), r.store, r.calls)
         ELSE r
    ELSE IF gvk.Kind = CustomResourceDefinitionKind /\ item.Category # ""
    THEN LET c == LookupCrdsByCategory(F, item.Category) IN
         IF ~c.err.nil
         THEN Result(0, Errorf("failed to lookup CRDs by category " \o item.Category \o ": " \o c.err.msg), s, {})
         ELSE IF Len(c.gvks) = 0
         THEN Result(0, Errorf("no CRDs found for category " \o item.Category), s, {})
         ELSE LET a == DeleteCategoryLoop(F, dryRun, c.gvks, item.Namespace,
                           [count |-> 0, errs |-> <<>>, store |-> s, calls |-> {}])
              IN Result(a.count, Join(a.errs), a.store, a.calls)
    ELSE LET r == DeleteResources(F, s, dryRun, gvk, item.Namespace) IN
         IF ~r.err.nil
         THEN Result(r.count, Errorf("failed to cleanup resources of kind " \o item.Kind \o " in namespace "
                                     \o item.Namespace \o ": " \o r.err.msg), r.store, r.calls)
         ELSE r

DeleteItem_CategoryAnyKind(F, s, dryRun, gvk, item) ==
    IF item.Category # ""
    THEN LET c == LookupCrdsByCategory(F, item.Category) IN
         IF ~c.err.nil
         THEN Result(0, Errorf("failed to lookup CRDs by category " \o item.Category \o ": " \o c.err.msg), s, {})
         ELSE IF Len(c.gvks) = 0
         THEN Result(0, Errorf("no CRDs found for category " \o item.Category), s, {})
         ELSE LET a == DeleteCategoryLoop(F, dryRun, c.gvks, item.Namespace,
                           [count |-> 0, errs |-> <<>>, store |-> s, calls |-> {}])
              IN Result(a.count, Join(a.errs), a.store, a.calls)
    ELSE IF item.Name = ""
    THEN LET r == DeleteResources(F, s, dryRun, gvk, item.Namespace) IN
         IF ~r.err.nil
         THEN Result(r.count, Errorf("failed to cleanup resources of kind " \o item.Kind \o " in namespace "
                                     \o item.Namespace \o ": " \o r.err.msg), r.store, r.calls)
         ELSE r
    ELSE LET r == DeleteNamedResource(F, s, dryRun, gvk, item.Namespace, item.Name) IN
         IF ~r.err.nil
         THEN Result(r.count, Errorf("failed to cleanup named resource " \o item.Namespace \o "/"
                                     \o item.Name \o ": " \o r.err.msg), r.store, r.calls)
         ELSE r

DeleteItem(F, s, dryRun, gvk, item) ==
    IF gvk.Kind = CustomResourceDefinitionKind /\ item.Category # ""
    THEN LET c == LookupCrdsByCategory(F, item.Category) IN
         IF ~c.err.nil
         THEN Result(0, Errorf("failed to lookup CRDs by category " \o item.Category \o ": " \o c.err.msg), s, {})
         ELSE IF Len(c.gvks) = 0
         THEN Result(0, Errorf("no CRDs found for category " \o item.Category), s, {})
         ELSE LET a == DeleteCategoryLoop(F, dryRun, c.gvks, item.Namespace,
                           [count |-> 0, errs |-> <<>>, store |-> s, calls |-> {}])
              IN Result(a.count, Join(a.errs), a.store, a.calls)
    ELSE IF item.Name = ""
    THEN LET r == DeleteResources(F, s, dryRun, gvk, item.Namespace) IN
         IF ~r.err.nil
         THEN Result(r.count, Errorf("failed to cleanup resources of kind " \o item.Kind \o " in namespace "
                                     \o item.Namespace \o ": " \o r.err.msg), r.store, r.calls)
         ELSE r
    ELSE LET r == DeleteNamedResource(F, s, dryRun, gvk, item.Namespace, item.Name) IN
         IF ~r.err.nil
         THEN Result(r.count, Errorf("failed to cleanup named resource " \o item.Namespace \o "/"
                                     \o item.Name \o ": " \o r.err.msg), r.store, r.calls)
         ELSE r

----------------------------------------------------------------------------
(* CleanupService *)

\* what one iteration of an item loop does: the count it adds, the errors it appends,
\* the store it leaves, the calls it made, the executor it invoked
Iter(c, es, s, calls, exec) == [count |-> c, errs |-> es, store |-> s, calls |-> calls, exec |-> exec]

LookupCall(kind) == Call("lookup", Key(kind, "", ""))

\* `count += c` and `if err != nil { errs = append(errs, fmt.Errorf(prefix + "%w", err)) }`
\* for the result r of an executor
IterOf(r, prefix, lc, exec) ==
    Iter(r.count, IF r.err.nil THEN <<>> ELSE <<prefix \o r.err.msg>>, r.store, r.calls \cup lc, exec)

CleanupItemsSwitch_NoUnknownCase(F, s, dryRun, item, l) ==
    IF ~l.err.nil
    THEN Iter(0, <<"failed to lookup group and kind for " \o item.Kind \o ": " \o l.err.msg>>, s,
              {LookupCall(item.Kind)}, "none")
    ELSE CASE item.Action = ActionScaleToZero ->
              IterOf(ScaleItem(F, s, dryRun, l.gvk, item, Int32Ptr(0)),
                     "failed to scale " \o item.Namespace \o "/" \o item.Name \o " to zero: ",
                     {LookupCall(item.Kind)}, "scale")
           [] item.Action = ActionDelete ->
              IterOf(DeleteItem(F, s, dryRun, l.gvk, item),
                     "failed to delete " \o item.Namespace \o "/" \o item.Name \o ": ",
                     {LookupCall(item.Kind)}, "delete")
           [] OTHER ->
              Iter(0, <<"unsupported action for item: " \o FormatItem(item)>>, s,
                   {LookupCall(item.Kind)}, "none")

\* lines 49-74 of CleanupItems, l being what LookupGroupKind returned
CleanupItemsSwitch(F, s, dryRun, item, l) ==
    IF ~l.err.nil
    THEN Iter(0, <<"failed to lookup group and kind for " \o item.Kind \o ": " \o l.err.msg>>, s,
              {LookupCall(item.Kind)}, "none")
    ELSE CASE item.Action = ActionScaleToZero ->
              IterOf(ScaleItem(F, s, dryRun, l.gvk, item, Int32Ptr(0)),
                     "failed to scale " \o item.Namespace \o "/" \o item.Name \o " to zero: ",
                     {LookupCall(item.Kind)}, "scale")
           [] item.Action = ActionDelete ->
              IterOf(DeleteItem(F, s, dryRun, l.gvk, item),
                     "failed to delete " \o item.Namespace \o "/" \o item.Name \o ": ",
                     {LookupCall(item.Kind)}, "delete")
           [] item.Action = ActionUnknown ->
              Iter(0, <<"action must be specified for item: " \o FormatItem(item)>>, s,
                   {LookupCall(item.Kind)}, "none")
           [] OTHER ->
              Iter(0, <<"unsupported action for item: " \o FormatItem(item)>>, s,
                   {LookupCall(item.Kind)}, "none")

CleanupItemsIter_NoKindCheck(F, s, dryRun, item) ==
    CleanupItemsSwitch(F, s, dryRun, item, LookupGroupKind(F, item.Kind))

\* one iteration of the loop of CleanupItems
CleanupItemsIter(F, s, dryRun, item) ==
    IF item.Kind = ""
    THEN Iter(0, <<"kind must be specified for item: " \o FormatItem(item)>>, s, {}, "none")
    ELSE CleanupItemsSwitch(F, s, dryRun, item, LookupGroupKind(F, item.Kind))

CleanupItemsResult_FirstErrorOnly(c, es) ==
    IF Len(es) > 0
    THEN [count |-> c, err |-> Errorf(es[1])]
    ELSE [count |-> c, err |-> Nil]

\* what CleanupItems returns after the loop
CleanupItemsResult(c, es) ==
    IF Len(es) > 0
    THEN [count |-> c,
          err |-> Errorf(ToString(Len(es)) \o " errors occurred during processing: " \o JoinMsgs(es))]
    ELSE [count |-> c, err |-> Nil]

----------------------------------------------------------------------------
(* UpdateService, and the reconciler's updateCondition *)

Condition(t, reason, message) == [Type |-> t, Status |-> "True", Reason |-> reason, Message |-> message]

HasCondition(conds, t) == \E i \in 1..Len(conds) : conds[i].Type = t

\* meta.FindStatusCondition, for a Type that is present
FindStatusCondition(conds, t) == conds[CHOOSE i \in 1..Len(conds) : conds[i].Type = t]

\* meta.SetStatusCondition: replace the entry of the Type in place, else append
SetStatusCondition_Append(conds, c) == Append(conds, c)

SetStatusCondition_Replace(conds, c) == <<c>>

SetStatusCondition(conds, c) ==
    IF HasCondition(conds, c.Type)
    THEN [i \in 1..Len(conds) |-> IF conds[i].Type = c.Type THEN c ELSE conds[i]]
    ELSE Append(conds, c)

\* UpdateCondition on the in-memory conditions o; the Status().Update fails when the
\* object is absent or when `fail` says so. Gives the in-memory conditions, the persisted
\* conditions and the error.
UpdateCondition_PersistOnError(o, p, exists, fail, t, reason, message) ==
    LET n == SetStatusCondition(o, Condition(t, reason, message)) IN
    IF fail \/ ~exists
    THEN [obj |-> n, persisted |-> n,
          err |-> Errorf("failed to update PreClusterDestroyCleanup status: "
                         \o (IF exists THEN "store error" ELSE "not found"))]
    ELSE [obj |-> n, persisted |-> n, err |-> Nil]

UpdateCondition(o, p, exists, fail, t, reason, message) ==
    LET n == SetStatusCondition(o, Condition(t, reason, message)) IN
    IF fail \/ ~exists
    THEN [obj |-> n, persisted |-> p,
          err |-> Errorf("failed to update PreClusterDestroyCleanup status: "
                         \o (IF exists THEN "store error" ELSE "not found"))]
    ELSE [obj |-> n, persisted |-> n, err |-> Nil]

updateCondition(o, p, exists, fail, t, reason, message) ==
    LET n == SetStatusCondition(o, Condition(t, reason, message)) IN
    IF fail \/ ~exists
    THEN [obj |-> n, persisted |-> p,
          err |-> Errorf("failed to update PreClusterDestroyCleanup status: "
                         \o (IF exists THEN "store error" ELSE "not found"))]
    ELSE [obj |-> n, persisted |-> n, err |-> Nil]

----------------------------------------------------------------------------
(* PreClusterDestroyCleanupReconciler: the helpers of Reconcile *)

lookupGroupKind(F, kind) ==
    IF Call("lookup", Key("", "", "")) \in F
    THEN [gvk |-> EmptyGVK,
          err |-> Errorf("failed to find mapping for kind " \o kind \o ": store error")]
    ELSE LET k == KindFor(kind) IN
         IF k.ok THEN [gvk |-> k.gvk, err |-> Nil]
         ELSE LET m == RESTMapping(ParseGroupKind(kind)) IN
              IF m.ok THEN [gvk |-> m.gvk, err |-> Nil]
              ELSE [gvk |-> EmptyGVK,
                    err |-> Errorf("failed to find mapping for kind " \o kind \o ": no matches for kind")]

lookupCrdsByCategory(F, category) ==
    IF Call("crds", Key("", "", "")) \in F
    THEN [gvks |-> <<>>, err |-> Errorf("failed to list CRDs: store error")]
    ELSE [gvks |-> CrdMatches(Crds, category), err |-> Nil]

listResources(F, s, gvk, ns) ==
    LET l == StoreList(F, s, gvk.Kind, ns) IN
    IF ~l.err.nil
    THEN [items |-> <<>>,
          err |-> Errorf("failed to list " \o gvk.Kind \o " in namespace " \o ns \o ": " \o l.err.msg)]
    ELSE [items |-> l.items, err |-> Nil]

cleanupResources(F, s, dryRun, gvk, ns) ==
    LET l == listResources(F, s, gvk, ns) IN
    IF ~l.err.nil
    THEN Result(0, Errorf("failed to list resources of kind " \o gvk.Kind \o " in namespace " \o ns
                          \o ": " \o l.err.msg), s, {ListCall(gvk, ns)})
    ELSE IF Len(l.items) = 0 THEN Result(0, Nil, s, {ListCall(gvk, ns)})
    ELSE IF dryRun THEN Result(Len(l.items), Nil, s, {ListCall(gvk, ns)})
    ELSE LET a == DeleteLoop(F, l.items,
                      [count |-> 0, errs |-> <<>>, store |-> s, calls |-> {ListCall(gvk, ns)}])
         IN Result(a.count, Join(a.errs), a.store, a.calls)

cleanupNamedResource(F, s, dryRun, gvk, ns, name) ==
    LET k == Key(gvk.Kind, ns, name)
        g == StoreGet(F, s, k)
    IN IF ~g.nil
       THEN Result(0, Errorf("failed to get " \o ns \o "/" \o name \o ": " \o g.msg), s, {Call("get", k)})
       ELSE IF dryRun THEN Result(1, Nil, s, {Call("get", k)})
       ELSE LET d == StoreDelete(F, s, k) IN
            IF ~d.err.nil
            THEN Result(0, Errorf("failed to delete " \o ns \o "/" \o name \o ": " \o d.err.msg), s,
                        {Call("get", k), Call("delete", k)})
            ELSE Result(1, Nil, d.store, {Call("get", k), Call("delete", k)})

\* scaleDeploymentToZero and scaleStatefulSetToZero: the same body for their own kind;
\* the object is written back with Spec.Replicas = nil
scaleKindToZero(F, s, dryRun, own, gvk, ns, name) ==
    LET k == Key(own, ns, name) IN
    IF gvk.Kind # own
    THEN Result(0, Errorf("scaling to zero is not supported for kind " \o gvk.Kind), s, {})
    ELSE IF name = "" THEN Result(0, Nil, s, {})
    ELSE IF dryRun THEN Result(1, Nil, s, {})
    ELSE LET g == StoreGet(F, s, k) IN
         IF ~g.nil THEN Result(0, Errorf("failed to get " \o ns \o "/" \o name \o ": " \o g.msg), s, {Call("get", k)})
         ELSE LET u == StoreUpdate(F, s, k, NilPtr) IN
              IF ~u.err.nil
              THEN Result(0, Errorf("failed to scale " \o ns \o "/" \o name \o " to zero: " \o u.err.msg), s,
                          {Call("get", k), Call("update", k)})
              ELSE Result(1, Nil, u.store, {Call("get", k), Call("update", k)})

scaleDeploymentToZero(F, s, dryRun, gvk, ns, name) ==
    scaleKindToZero(F, s, dryRun, "Deployment", gvk, ns, name)

scaleStatefulSetToZero(F, s, dryRun, gvk, ns, name) ==
    scaleKindToZero(F, s, dryRun, "StatefulSet", gvk, ns, name)

scaleResourceToZero(F, s, dryRun, gvk, ns, name) ==
    CASE gvk.Kind = "Deployment" -> scaleDeploymentToZero(F, s, dryRun, gvk, ns, name)
      [] gvk.Kind = "StatefulSet" -> scaleStatefulSetToZero(F, s, dryRun, gvk, ns, name)
      [] OTHER -> Result(0, Errorf("scaling to zero is not supported for kind " \o gvk.Kind), s, {})

\* the loop of scaleToZero over list.Items
RECURSIVE scaleToZeroLoop(_, _, _, _, _)
scaleToZeroLoop(F, dryRun, gvk, items, acc) ==
    IF items = <<>> THEN acc
    ELSE LET i == Head(items)
             r == scaleResourceToZero(F, acc.store, dryRun, gvk, i.ns, i.name)
         IN scaleToZeroLoop(F, dryRun, gvk, Tail(items),
                [count |-> acc.count + r.count,
                 errs  |-> IF r.err.nil THEN acc.errs
                           ELSE Append(acc.errs, "failed to scale " \o i.ns \o "/" \o i.name
                                    \o " to zero: " \o r.err.msg),
                 store |-> r.store,
                 calls |-> acc.calls \cup r.calls])

scaleToZero(F, s, dryRun, gvk, ns, name) ==
    IF gvk.Kind # "Deployment" /\ gvk.Kind # "StatefulSet"
    THEN Result(0, Errorf("scaling to zero is not supported for kind " \o gvk.Kind), s, {})
    ELSE IF name # ""
    THEN LET r == scaleResourceToZero(F, s, dryRun, gvk, ns, name) IN
         IF ~r.err.nil
         THEN Result(0, Errorf("failed to scale " \o ns \o "/" \o name \o " to zero: " \o r.err.msg),
                     r.store, r.calls)
         ELSE Result(r.count, Nil, r.store, r.calls)
    ELSE LET l == listResources(F, s, gvk, ns) IN
         IF ~l.err.nil
         THEN Result(0, Errorf("failed to list resources of kind " \o gvk.Kind \o " in namespace "
                               \o ns \o ": " \o l.err.msg), s, {ListCall(gvk, ns)})
         ELSE IF Len(l.items) = 0 THEN Result(0, Nil, s, {ListCall(gvk, ns)})
         ELSE LET a == scaleToZeroLoop(F, dryRun, gvk, l.items,
                           [count |-> 0, errs |-> <<>>, store |-> s, calls |-> {ListCall(gvk, ns)}])
              IN Result(a.count, Join(a.errs), a.store, a.calls)

\* lines 136-141 of Reconcile, r being what cleanupResources returned for type g
ReconcileCategoryStep(acc, g, ns, r) ==
    Iter(IF r.err.nil THEN acc.count + r.count ELSE acc.count,
         IF r.err.nil THEN acc.errs
         ELSE Append(acc.errs, "failed to cleanup resources of kind " \o g.Kind
                  \o " in namespace " \o ns \o ": " \o r.err.msg),
         r.store, acc.calls \cup r.calls, acc.exec)

RECURSIVE ReconcileCategoryLoop(_, _, _, _, _)
ReconcileCategoryLoop(F, dryRun, gvks, ns, acc) ==
    IF gvks = <<>> THEN acc
    ELSE ReconcileCategoryLoop(F, dryRun, Tail(gvks), ns,
             ReconcileCategoryStep(acc, Head(gvks), ns,
                                   cleanupResources(F, acc.store, dryRun, Head(gvks), ns)))

\* lines 124-144 of Reconcile, c being what lookupCrdsByCategory returned
ReconcileCategory(F, s, dryRun, item, c, lc) ==
    IF ~c.err.nil
    THEN Iter(0, <<"failed to lookup CRDs by category " \o item.Category \o ": " \o c.err.msg>>,
              s, lc, "delete")
    ELSE IF Len(c.gvks) = 0
    THEN Iter(0, <<"no CRDs found for category " \o item.Category>>, s, lc, "delete")
    ELSE ReconcileCategoryLoop(F, dryRun, c.gvks, item.Namespace,
                               Iter(0, <<>>, s, lc, "delete"))

\* lines 101-159 of Reconcile, l being what lookupGroupKind returned
ReconcileDispatch(F, s, dryRun, item, l, lc) ==
    IF ~l.err.nil
    THEN Iter(0, <<"failed to lookup group and kind for " \o item.Kind \o ": " \o l.err.msg>>, s, lc, "none")
    ELSE IF item.Action = ""
    THEN Iter(0, <<"action must be specified for item: " \o FormatItem(item)>>, s, lc, "none")
    ELSE IF item.Action = "scaleToZero"
    THEN IterOf(scaleToZero(F, s, dryRun, l.gvk, item.Namespace, item.Name),
                "failed to scale " \o item.Namespace \o "/" \o item.Name \o " to zero: ", lc, "scale")
    ELSE IF l.gvk.Kind = "CustomResourceDefinition" /\ item.Category # ""
    THEN ReconcileCategory(F, s, dryRun, item, lookupCrdsByCategory(F, item.Category), lc)
    ELSE IF item.Name = ""
    THEN IterOf(cleanupResources(F, s, dryRun, l.gvk, item.Namespace),
                "failed to cleanup resources of kind " \o item.Kind \o " in namespace "
                    \o item.Namespace \o ": ", lc, "delete")
    ELSE IterOf(cleanupNamedResource(F, s, dryRun, l.gvk, item.Namespace, item.Name),
                "failed to cleanup named resource " \o item.Namespace \o "/" \o item.Name \o ": ",
                lc, "delete")

\* one iteration of the item loop of Reconcile
ReconcileIter(F, s, dryRun, item) ==
    IF item.Kind = ""
    THEN Iter(0, <<"kind must be specified for item: " \o FormatItem(item)>>, s, {}, "none")
    ELSE ReconcileDispatch(F, s, dryRun, item, lookupGroupKind(F, item.Kind), {LookupCall(item.Kind)})

\* client.IgnoreNotFound
IgnoreNotFound_Keep(e) == e

IgnoreNotFound(e) == IF ~e.nil /\ e.msg = "not found" THEN Nil ELSE e

----------------------------------------------------------------------------
(* Inputs *)

Item(kind, name, category, action) ==
    [Kind |-> kind, Namespace |-> "ns1", Name |-> name, Category |-> category, Action |-> action]

\* every combination of the fields of one item
AllItems ==
    {Item(k, n, c, a) : k \in {"", "Bogus", "Deployment", "Deployment.apps", "StatefulSet", "Service",
                                "CustomResourceDefinition"},
                        n \in {"", "d1"}, c \in {"", "managed", "ALL", "foo"},
                        a \in {"", "delete", "scaleToZero", "detach"}}

\* the items that lists of several items are made of
CoreItems ==
    { Item("", "d1", "", "scaleToZero"),
      Item("CustomResourceDefinition", "", "managed", "delete"),
      Item("Deployment", "d1", "", "scaleToZero"),
      Item("Deployment", "", "", "delete") }

ItemLists ==
    {<<>>} \cup {<<i>> : i \in AllItems}
           \cup UNION {[1..n -> CoreItems] : n \in 2..MaxItems}

\* the sets of instances a store can hold when a pass starts
PresentSets ==
    {D \cup S \cup W :
        D \in {{}, {Key("Deployment", "ns1", "d1")},
               {Key("Deployment", "ns1", "d1"), Key("Deployment", "ns1", "d2")}},
        S \in {{Key("StatefulSet", "ns1", "s1")}},
        W \in {{}, {Key("Widget", "ns1", "w1"), Key("Widget", "ns1", "w2"),
                    Key("Gadget", "ns1", "g1")}}}

\* a store holds some of the instances, each with the replicas it was created with
InitialStores ==
    {[k \in Keys |-> IF k \in E THEN [exists |-> TRUE, replicas |-> Int32Ptr(InitialReplicas)]
                              ELSE [exists |-> FALSE, replicas |-> NilPtr]] : E \in PresentSets}

NotReturned == [done |-> FALSE, count |-> 0, err |-> Nil]
Returned(c, e) == [done |-> TRUE, count |-> c, err |-> e]

\* a condition write as the history keeps it
Write(t, reason, message, ok, at) ==
    [Type |-> t, Reason |-> reason, Message |-> message, ok |-> ok, at |-> at]

\* what one iteration did: the store it found, whether calls of it were made to fail,
\* the executor it invoked, the errors and the count it added, the calls it made
LogEntry(it, pre, F) ==
    [pre |-> pre, faulted |-> F # {}, exec |-> it.exec, errs |-> it.errs,
     count |-> it.count, calls |-> it.calls]

\* before any pass has returned
NoPass == [some |-> FALSE, count |-> 0, err |-> Nil, store |-> <<>>, reason |-> "", deleted |-> {}]

\* whether a call on the API server fails, which calls of an item fail, how the re-read
\* of the object ends: anything while the API server is faulty, success once it is not
MayFail == IF faulty THEN BOOLEAN ELSE {FALSE}
Plans(item) == IF faulty THEN FaultPlans(item) ELSE {{}}
Regets == IF faulty THEN {"ok", "gone", "error"} ELSE {"ok"}

----------------------------------------------------------------------------
(* Reconcile, step by step *)

\* lines 62-66: fetch the object
ReconcileGet ==
    /\ impl = "Reconcile" /\ pc = "start"
    /\ \E fail \in MayFail :
        LET err == IF fail THEN Errorf("store error")
                   ELSE IF ~objExists THEN Errorf("not found") ELSE Nil
        IN IF ~err.nil
           THEN /\ pc' = "done"
                /\ ret' = Returned(0, IgnoreNotFound(err))
                /\ obj' = obj
           ELSE /\ pc' = "init"
                /\ obj' = persisted
                /\ ret' = ret
    /\ UNCHANGED <<impl, list, external, prev, faulty, store, store0, objExists, spec, persisted, idx, count, errs, log, writes>>

ReconcileInit_ContinueOnError ==
    /\ impl = "Reconcile" /\ pc = "init"
    /\ IF Len(obj) = 0
       THEN \E fail \in MayFail :
            LET u == updateCondition(obj, persisted, objExists, fail,
                                     "Initialized", "Reconciling", "Reconciliation started")
                w == Write("Initialized", "Reconciling", "Reconciliation started", u.err.nil, Len(log))
            IN /\ writes' = Append(writes, w)
               /\ persisted' = u.persisted
               /\ pc' = "items" /\ ret' = ret
               /\ obj' = u.persisted /\ objExists' = objExists
       ELSE /\ pc' = "items"
            /\ UNCHANGED <<writes, persisted, obj, objExists, ret>>
    /\ UNCHANGED <<impl, list, external, prev, faulty, store, store0, spec, idx, count, errs, log>>

\* lines 68-80: with no conditions yet, write Initialized and fetch the object again;
\* the object may have been deleted in between
ReconcileInit ==
    /\ impl = "Reconcile" /\ pc = "init"
    /\ IF Len(obj) = 0
       THEN \E fail \in MayFail, reget \in Regets :
            LET u == updateCondition(obj, persisted, objExists, fail,
                                     "Initialized", "Reconciling", "Reconciliation started")
                w == Write("Initialized", "Reconciling", "Reconciliation started", u.err.nil, Len(log))
            IN /\ writes' = Append(writes, w)
               /\ persisted' = u.persisted
               /\ IF ~u.err.nil
                  THEN /\ pc' = "done" /\ ret' = Returned(0, u.err)
                       /\ obj' = u.obj /\ objExists' = objExists
                  ELSE CASE reget = "ok" ->
                              /\ pc' = "items" /\ ret' = ret
                              /\ obj' = u.persisted /\ objExists' = objExists
                         [] reget = "gone" ->
                              /\ pc' = "done" /\ ret' = Returned(0, IgnoreNotFound(Errorf("not found")))
                              /\ obj' = u.obj /\ objExists' = FALSE
                         [] reget = "error" ->
                              /\ pc' = "done" /\ ret' = Returned(0, IgnoreNotFound(Errorf("store error")))
                              /\ obj' = u.obj /\ objExists' = objExists
       ELSE /\ pc' = "items"
            /\ UNCHANGED <<writes, persisted, obj, objExists, ret>>
    /\ UNCHANGED <<impl, list, external, prev, faulty, store, store0, spec, idx, count, errs, log>>

\* lines 82-90: nothing to do
ReconcileNoResources ==
    /\ impl = "Reconcile" /\ pc = "items" /\ Len(spec.Resources) = 0
    /\ \E fail \in MayFail :
        LET u == updateCondition(obj, persisted, objExists, fail,
                                 "Complete", "NoResources", "No resources specified for cleanup")
        IN /\ writes' = Append(writes, Write("Complete", "NoResources",
                                             "No resources specified for cleanup", u.err.nil, Len(log)))
           /\ persisted' = u.persisted
           /\ obj' = u.obj
           /\ ret' = [done |-> FALSE, count |-> 0, err |-> u.err]
           /\ pc' = "return"
    /\ UNCHANGED <<impl, list, external, prev, faulty, store, store0, objExists, spec, idx, count, errs, log>>

\* lines 94-160: one iteration of the item loop
ReconcileItem ==
    /\ impl = "Reconcile" /\ pc = "items"
    /\ Len(spec.Resources) > 0 /\ idx <= Len(spec.Resources)
    /\ \E F \in Plans(spec.Resources[idx]) :
        \E it \in {ReconcileIter(F, store, spec.DryRun, spec.Resources[idx])} :
           /\ store' = it.store
           /\ count' = count + it.count
           /\ errs' = errs \o it.errs
           /\ log' = Append(log, LogEntry(it, store, F))
    /\ idx' = idx + 1
    /\ UNCHANGED <<impl, list, external, prev, faulty, pc, store0, objExists, spec, persisted, obj, writes, ret>>

\* lines 162-177: the condition Reconcile writes after the loop and the error it returns
\* when that write succeeds
ReconcileOutcome_SwallowErrors(es, c) ==
    [reason |-> "CompletedSuccessfully",
     message |-> "Cleaned up " \o ToString(c) \o " resources",
     err |-> Nil]

ReconcileOutcome_Failed(es, c) ==
    IF Len(es) > 0
    THEN [reason |-> "Failed",
          message |-> "Errors occurred during cleanup: " \o ToString(Len(es)) \o " errors",
          err |-> Join(es)]
    ELSE [reason |-> "CompletedSuccessfully",
          message |-> "Cleaned up " \o ToString(c) \o " resources",
          err |-> Nil]

ReconcileOutcome(es, c) ==
    IF Len(es) > 0
    THEN [reason |-> "CompletedWithErrors",
          message |-> "Errors occurred during cleanup: " \o ToString(Len(es)) \o " errors",
          err |-> Join(es)]
    ELSE [reason |-> "CompletedSuccessfully",
          message |-> "Cleaned up " \o ToString(c) \o " resources",
          err |-> Nil]

ReconcileComplete_ReturnFirst ==
    /\ impl = "Reconcile" /\ pc = "items"
    /\ Len(spec.Resources) > 0 /\ idx > Len(spec.Resources)
    /\ ret' = [done |-> FALSE, count |-> count, err |-> ReconcileOutcome(errs, count).err]
    /\ pc' = "return"
    /\ UNCHANGED <<impl, list, external, prev, faulty, store, store0, objExists, spec, persisted, obj, idx, count, errs, log, writes>>

\* lines 162-174: after the loop, write the Complete condition
ReconcileComplete ==
    /\ impl = "Reconcile" /\ pc = "items"
    /\ Len(spec.Resources) > 0 /\ idx > Len(spec.Resources)
    /\ \E fail \in MayFail :
        \E o \in {ReconcileOutcome(errs, count)} :
        \E u \in {updateCondition(obj, persisted, objExists, fail, "Complete", o.reason, o.message)} :
           /\ writes' = Append(writes, Write("Complete", o.reason, o.message, u.err.nil, Len(log)))
           /\ persisted' = u.persisted
           /\ obj' = u.obj
           /\ ret' = [done |-> FALSE, count |-> count,
                      err |-> IF ~u.err.nil THEN u.err ELSE o.err]
           /\ pc' = "return"
    /\ UNCHANGED <<impl, list, external, prev, faulty, store, store0, objExists, spec, idx, count, errs, log>>

\* lines 89, 166, 168, 173, 177: return to the caller
ReconcileReturn ==
    /\ impl = "Reconcile" /\ pc = "return"
    /\ pc' = "done"
    /\ ret' = [ret EXCEPT !.done = TRUE]
    /\ UNCHANGED <<impl, list, external, prev, faulty, store, store0, objExists, spec, persisted, obj, idx, count, errs, log, writes>>

----------------------------------------------------------------------------
(* CleanupService.CleanupItems, step by step *)

CleanupItemsItem_BreakOnError ==
    /\ impl = "CleanupItems" /\ pc = "items"
    /\ idx <= Len(spec.Resources)
    /\ \E F \in Plans(spec.Resources[idx]) :
        \E it \in {CleanupItemsIter(F, store, spec.DryRun, spec.Resources[idx])} :
           /\ store' = it.store
           /\ count' = count + it.count
           /\ errs' = errs \o it.errs
           /\ log' = Append(log, LogEntry(it, store, F))
           /\ idx' = IF it.errs # <<>> THEN Len(spec.Resources) + 1 ELSE idx + 1
    /\ UNCHANGED <<impl, list, external, prev, faulty, pc, store0, objExists, spec, persisted, obj, writes, ret>>

\* lines 42-75: one iteration of the loop
CleanupItemsItem ==
    /\ impl = "CleanupItems" /\ pc = "items"
    /\ idx <= Len(spec.Resources)
    /\ \E F \in Plans(spec.Resources[idx]) :
        \E it \in {CleanupItemsIter(F, store, spec.DryRun, spec.Resources[idx])} :
           /\ store' = it.store
           /\ count' = count + it.count
           /\ errs' = errs \o it.errs
           /\ log' = Append(log, LogEntry(it, store, F))
    /\ idx' = idx + 1
    /\ UNCHANGED <<impl, list, external, prev, faulty, pc, store0, objExists, spec, persisted, obj, writes, ret>>

CleanupItemsReturn_Rollback ==
    /\ impl = "CleanupItems" /\ pc = "items"
    /\ idx > Len(spec.Resources)
    /\ pc' = "done"
    /\ ret' = Returned(CleanupItemsResult(count, errs).count, CleanupItemsResult(count, errs).err)
    /\ store' = IF errs # <<>> THEN store0 ELSE store
    /\ UNCHANGED <<impl, list, external, prev, faulty, store0, objExists, spec, persisted, obj, idx, count, errs, log, writes>>

\* lines 77-81: return to the caller
CleanupItemsReturn ==
    /\ impl = "CleanupItems" /\ pc = "items"
    /\ idx > Len(spec.Resources)
    /\ pc' = "done"
    /\ ret' = Returned(CleanupItemsResult(count, errs).count, CleanupItemsResult(count, errs).err)
    /\ UNCHANGED <<impl, list, external, prev, faulty, store, store0, objExists, spec, persisted, obj, idx, count, errs, log, writes>>

----------------------------------------------------------------------------
(* UpdateService.UpdateCondition, called again and again on one in-memory object *)

ConditionTypes == {"Initialized", "Complete"}
ConditionReasons == {"Reconciling", "CompletedSuccessfully"}
ConditionMessages == {"Reconciliation started", "Processed"}

UpdateConditionCall ==
    /\ impl = "UpdateCondition" /\ pc = "update"
    /\ Len(writes) < MaxWrites
    /\ \E t \in ConditionTypes, reason \in ConditionReasons, message \in ConditionMessages,
          fail \in BOOLEAN :
        \E u \in {UpdateCondition(obj, persisted, objExists, fail, t, reason, message)} :
           /\ obj' = u.obj
           /\ persisted' = u.persisted
           /\ writes' = Append(writes, Write(t, reason, message, u.err.nil, 0))
           /\ ret' = Returned(0, u.err)
    /\ UNCHANGED <<impl, list, external, prev, faulty, pc, store, store0, objExists, spec, idx, count, errs, log>>

----------------------------------------------------------------------------
(* Specification: one pass of Reconcile on an object, one call of CleanupItems on a
   list, or a sequence of UpdateCondition calls *)

\* the conditions an object can carry when a pass starts: none, or the Initialized
\* condition of an earlier pass
InitialConditions ==
    { <<>>, <<Condition("Initialized", "Reconciling", "Reconciliation started")>> }

\* the store holding every instance
FullStore == [k \in Keys |-> [exists |-> TRUE, replicas |-> Int32Ptr(InitialReplicas)]]

Init ==
    /\ impl \in {"Reconcile", "CleanupItems", "UpdateCondition"}
    /\ pc = CASE impl = "Reconcile" -> "start"
              [] impl = "CleanupItems" -> "items"
              [] OTHER -> "update"
    /\ store \in (IF impl = "UpdateCondition" THEN {FullStore} ELSE InitialStores)
    /\ store0 = store
    /\ objExists \in (IF impl = "CleanupItems" THEN {TRUE} ELSE BOOLEAN)
    /\ spec \in (IF impl = "UpdateCondition" THEN {[DryRun |-> FALSE, Resources |-> <<>>]}
                 ELSE [DryRun : BOOLEAN, Resources : ItemLists])
    /\ persisted \in (IF impl = "Reconcile" /\ objExists THEN InitialConditions ELSE {<<>>})
    /\ obj = <<>>
    /\ idx = 1
    /\ count = 0
    /\ errs = <<>>
    /\ log = <<>>
    /\ writes = <<>>
    /\ ret = NotReturned
    /\ prev = NoPass
    /\ faulty = TRUE
    /\ list = <<>>
    /\ external = <<>>

Next ==
    \/ ReconcileGet
    \/ ReconcileInit
    \/ ReconcileNoResources
    \/ ReconcileItem
    \/ ReconcileComplete
    \/ ReconcileReturn
    \/ CleanupItemsItem
    \/ CleanupItemsReturn
    \/ UpdateConditionCall

Spec == Init /\ [][Next]_vars

----------------------------------------------------------------------------
(* Specification of repeated passes: the controller runtime calls Reconcile again for
   the same object, a caller calls CleanupItems again with the same list *)

\* what the pass that has just returned leaves for the next one to look back on
PassSummary ==
    [some |-> TRUE,
     count |-> count,
     err |-> ret.err,
     store |-> store,
     reason |-> IF HasCondition(persisted, "Complete")
                THEN FindStatusCondition(persisted, "Complete").Reason ELSE "",
     deleted |-> prev.deleted \cup {k \in Keys : store0[k].exists /\ ~store[k].exists}]

\* lines 58-62 and 92-93 of Reconcile, lines 40-41 of CleanupItems: a new call starts
\* with a fresh object, count and errs, on the store the calls before it left
StartPass(p) ==
    /\ pc' = p
    /\ obj' = <<>> /\ idx' = 1 /\ count' = 0 /\ errs' = <<>>
    /\ log' = <<>> /\ writes' = <<>> /\ ret' = NotReturned
    /\ store0' = store
    /\ prev' = PassSummary
    /\ UNCHANGED <<impl, list, external, store, objExists, spec, persisted, faulty>>

ReconcileRequeue_Terminal ==
    /\ impl = "Reconcile" /\ pc = "done" /\ ~ret.err.nil
    /\ UNCHANGED vars

\* the controller runtime queues the request again when Reconcile returned an error
ReconcileRequeue ==
    /\ impl = "Reconcile" /\ pc = "done" /\ ~ret.err.nil
    /\ StartPass("start")

\* the controller watches the object (SetupWithManager, For): an event for it starts a
\* pass also after a pass that returned nil
ReconcileEvent ==
    /\ impl = "Reconcile" /\ pc = "done" /\ ret.err.nil
    /\ StartPass("start")

\* the caller of CleanupItems calls it again with the same list
CleanupItemsAgain ==
    /\ impl = "CleanupItems" /\ pc = "done"
    /\ StartPass("items")

\* the API server stops failing
Heal ==
    /\ faulty
    /\ faulty' = FALSE
    /\ UNCHANGED <<impl, list, external, pc, store, store0, objExists, spec, persisted, obj, idx, count, errs, log,
                   writes, ret, prev>>

\* the lists the repeated passes run over
PassLists ==
    { <<>>,
      <<Item("Deployment", "d1", "", "scaleToZero")>>,
      <<Item("Deployment", "", "", "scaleToZero")>>,
      <<Item("StatefulSet", "s1", "", "scaleToZero")>>,
      <<Item("Deployment", "d1", "", "delete")>>,
      <<Item("Deployment", "", "", "delete")>>,
      <<Item("Bogus", "d1", "", "delete")>>,
      <<Item("Deployment", "d1", "", "scaleToZero"), Item("Deployment", "d1", "", "delete")>> }

\* the stores the repeated passes start from: no instances of extension types
PassStores == {s \in InitialStores : ~s[Key("Widget", "ns1", "w1")].exists}

InitPasses ==
    /\ impl \in {"Reconcile", "CleanupItems"}
    /\ pc = (IF impl = "Reconcile" THEN "start" ELSE "items")
    /\ store \in PassStores
    /\ store0 = store
    /\ objExists = TRUE
    /\ spec \in [DryRun : BOOLEAN, Resources : PassLists]
    /\ persisted = <<>>
    /\ obj = <<>>
    /\ idx = 1
    /\ count = 0
    /\ errs = <<>>
    /\ log = <<>>
    /\ writes = <<>>
    /\ ret = NotReturned
    /\ prev = NoPass
    /\ faulty = TRUE
    /\ list = <<>>
    /\ external = <<>>

\* a step of a running Reconcile call
ReconcileStep ==
    \/ ReconcileGet
    \/ ReconcileInit
    \/ ReconcileNoResources
    \/ ReconcileItem
    \/ ReconcileComplete
    \/ ReconcileReturn

NextPasses ==
    \/ ReconcileStep
    \/ ReconcileRequeue
    \/ ReconcileEvent
    \/ CleanupItemsItem
    \/ CleanupItemsReturn
    \/ CleanupItemsAgain
    \/ Heal

\* the loop of lines 92-160 moving on to its next item: under NextPasses the steps that
\* advance idx from a position inside the list are exactly the ReconcileItem steps
ReconcileItemAdvance ==
    /\ impl = "Reconcile" /\ pc = "items"
    /\ Len(spec.Resources) > 0 /\ idx <= Len(spec.Resources)
    /\ idx' = idx + 1

\* a running Reconcile call runs to its return: each of its steps is taken once it can be
ReconcileRuns ==
    /\ WF_vars(ReconcileGet) /\ WF_vars(ReconcileInit) /\ WF_vars(ReconcileNoResources)
    /\ WF_idx(ReconcileItemAdvance)
    /\ WF_vars(ReconcileComplete) /\ WF_vars(ReconcileReturn)

\* a running Reconcile call runs to its return, and the controller runtime does call
\* Reconcile again after an error
SpecPasses ==
    InitPasses /\ [][NextPasses]_vars /\ ReconcileRuns /\ WF_vars(ReconcileRequeue)

----------------------------------------------------------------------------
(* One iteration beside a companion iteration: the same calls are made to fail in both,
   both start from the same store, and the outcomes are kept side by side. The companion
   is the iteration of the same loop on the item with its Category cleared, or the
   iteration of the other loop on the same item. *)

\* one iteration of the item loop of an implementation
ItemIter(im, F, s, dryRun, item) ==
    IF im = "Reconcile" THEN ReconcileIter(F, s, dryRun, item)
    ELSE CleanupItemsIter(F, s, dryRun, item)

OtherImpl(im) == IF im = "Reconcile" THEN "CleanupItems" ELSE "Reconcile"

\* what the companion iteration returned and the store it left
CompanionSummary(it) ==
    [some |-> TRUE, count |-> it.count, err |-> Join(it.errs), store |-> it.store,
     reason |-> "", deleted |-> {}]

\* the iteration and its companion, both run on the store with the calls of F failing
RunBeside(F, it, companion, at) ==
    /\ store' = it.store
    /\ count' = it.count
    /\ errs' = it.errs
    /\ log' = <<LogEntry(it, store, F)>>
    /\ prev' = CompanionSummary(companion)
    /\ idx' = 2
    /\ pc' = at
    /\ UNCHANGED <<impl, list, external, faulty, store0, objExists, spec, persisted, obj, writes, ret>>

\* the calls of the iteration that fail: one more than in a step of a pass, as when the
\* context is cancelled and every call after it fails
BesidePlans(item) == PlansUpTo(FaultPoints(item), MaxFaults + 1)

\* lines 54-69 of CleanupItems, lines 124-143 of Reconcile: the item, and the item
\* without its Category
BesideNoCategory ==
    /\ pc = "beside"
    /\ \E F \in BesidePlans(spec.Resources[1]) :
        \E it \in {ItemIter(impl, F, store, spec.DryRun, spec.Resources[1])},
           tw \in {ItemIter(impl, F, store, spec.DryRun, [spec.Resources[1] EXCEPT !.Category = ""])} :
            RunBeside(F, it, tw, "category")

\* lines 92-160 of Reconcile beside lines 42-75 of CleanupItems: the item in both loops
BesideOtherImpl ==
    /\ pc = "beside"
    /\ \E F \in BesidePlans(spec.Resources[1]) :
        \E it \in {ItemIter(impl, F, store, spec.DryRun, spec.Resources[1])},
           tw \in {ItemIter(OtherImpl(impl), F, store, spec.DryRun, spec.Resources[1])} :
            RunBeside(F, it, tw, "impl")

InitBeside ==
    /\ impl \in {"Reconcile", "CleanupItems"}
    /\ pc = "beside"
    /\ store \in InitialStores
    /\ store0 = store
    /\ objExists = TRUE
    /\ spec \in [DryRun : BOOLEAN, Resources : {<<i>> : i \in AllItems}]
    /\ persisted = <<>>
    /\ obj = <<>>
    /\ idx = 1
    /\ count = 0
    /\ errs = <<>>
    /\ log = <<>>
    /\ writes = <<>>
    /\ ret = NotReturned
    /\ prev = NoPass
    /\ faulty = TRUE
    /\ list = <<>>
    /\ external = <<>>

NextBeside ==
    \/ BesideNoCategory
    \/ BesideOtherImpl

SpecBeside == InitBeside /\ [][NextBeside]_vars

----------------------------------------------------------------------------
(* DeleteResources, call by call, while other clients create and remove instances of
   the type *)

\* the types DeleteResources is called for
DeleteManyTypes == {GVK("apps", "v1", "Deployment"), GVK("example.com", "v1", "Widget")}

\* the gvk and ns arguments of the call
DeleteManyGVK == CHOOSE g \in DeleteManyTypes : g.Kind = spec.Resources[1].Kind
DeleteManyNs == spec.Resources[1].Namespace

\* what the loop did with one listed instance: whether the store held it when Delete was
\* called, and whether Delete returned nil
DeleteEntry(k, found, ok) == [key |-> k, found |-> found, ok |-> ok]

\* lines 79-95: the List, and the returns before the loop
DeleteResourcesList ==
    /\ impl = "DeleteResources" /\ pc = "list"
    /\ \E fail \in BOOLEAN :
        \E l \in {ListResources(IF fail THEN {Call("list", Key(DeleteManyGVK.Kind, "", ""))} ELSE {},
                                store, DeleteManyGVK, DeleteManyNs)} :
            IF ~l.err.nil
            THEN /\ ret' = Returned(0, Errorf("failed to list resources of kind " \o DeleteManyGVK.Kind
                                              \o " in namespace " \o DeleteManyNs \o ": " \o l.err.msg))
                 /\ pc' = "done" /\ list' = <<>>
            ELSE IF Len(l.items) = 0
            THEN /\ ret' = Returned(0, Nil)
                 /\ pc' = "done" /\ list' = l.items
            ELSE IF spec.DryRun
            THEN /\ ret' = Returned(Len(l.items), Nil)
                 /\ pc' = "done" /\ list' = l.items
            ELSE /\ ret' = ret
                 /\ pc' = "delete" /\ list' = l.items
    /\ UNCHANGED <<impl, external, store, store0, objExists, spec, persisted, obj, idx, count, errs, log,
                   writes, prev, faulty>>

DeleteResourcesDelete_IgnoreNotFound ==
    /\ impl = "DeleteResources" /\ pc = "delete"
    /\ idx <= Len(list)
    /\ \E fail \in BOOLEAN :
        \E d \in {StoreDelete(IF fail THEN {Call("delete", list[idx])} ELSE {}, store, list[idx])} :
            /\ store' = d.store
            /\ count' = IF d.err.nil \/ d.err.msg = "not found" THEN count + 1 ELSE count
            /\ errs' = IF d.err.nil \/ d.err.msg = "not found" THEN errs
                       ELSE Append(errs, "failed to delete " \o list[idx].ns \o "/" \o list[idx].name
                                         \o ": " \o d.err.msg)
            /\ log' = Append(log, DeleteEntry(list[idx], store[list[idx]].exists, d.err.nil))
    /\ idx' = idx + 1
    /\ UNCHANGED <<impl, list, external, pc, store0, objExists, spec, persisted, obj, writes, ret, prev, faulty>>

DeleteResourcesDelete_CountAttempts ==
    /\ impl = "DeleteResources" /\ pc = "delete"
    /\ idx <= Len(list)
    /\ \E fail \in BOOLEAN :
        \E d \in {StoreDelete(IF fail THEN {Call("delete", list[idx])} ELSE {}, store, list[idx])} :
            /\ store' = d.store
            /\ count' = count + 1
            /\ errs' = IF d.err.nil THEN errs
                       ELSE Append(errs, "failed to delete " \o list[idx].ns \o "/" \o list[idx].name
                                         \o ": " \o d.err.msg)
            /\ log' = Append(log, DeleteEntry(list[idx], store[list[idx]].exists, d.err.nil))
    /\ idx' = idx + 1
    /\ UNCHANGED <<impl, list, external, pc, store0, objExists, spec, persisted, obj, writes, ret, prev, faulty>>

\* lines 97-106: one iteration of the loop over list.Items
DeleteResourcesDelete ==
    /\ impl = "DeleteResources" /\ pc = "delete"
    /\ idx <= Len(list)
    /\ \E fail \in BOOLEAN :
        \E d \in {StoreDelete(IF fail THEN {Call("delete", list[idx])} ELSE {}, store, list[idx])} :
            /\ store' = d.store
            /\ count' = IF d.err.nil THEN count + 1 ELSE count
            /\ errs' = IF d.err.nil THEN errs
                       ELSE Append(errs, "failed to delete " \o list[idx].ns \o "/" \o list[idx].name
                                         \o ": " \o d.err.msg)
            /\ log' = Append(log, DeleteEntry(list[idx], store[list[idx]].exists, d.err.nil))
    /\ idx' = idx + 1
    /\ UNCHANGED <<impl, list, external, pc, store0, objExists, spec, persisted, obj, writes, ret, prev, faulty>>

\* line 108: return count, errors.Join(errs...)
DeleteResourcesReturn ==
    /\ impl = "DeleteResources" /\ pc = "delete"
    /\ idx > Len(list)
    /\ ret' = Returned(count, Join(errs))
    /\ pc' = "done"
    /\ UNCHANGED <<impl, list, external, store, store0, objExists, spec, persisted, obj, idx, count, errs,
                   log, writes, prev, faulty>>

\* what another client did: the instance, whether the List had been made, and the
\* position the loop was at
ExternalEvent(op, k) == [op |-> op, key |-> k, listed |-> pc # "list", at |-> idx]

\* the instances of the type in the namespace
TypeKeys == {k \in Keys : k.kind = DeleteManyGVK.Kind /\ (DeleteManyNs = "" \/ k.ns = DeleteManyNs)}

\* another client creates an instance of the type while the call runs
ExternalCreate ==
    /\ impl = "DeleteResources" /\ pc \in {"list", "delete"}
    /\ Len(external) < MaxExternal
    /\ \E k \in TypeKeys :
        /\ ~store[k].exists
        /\ store' = [store EXCEPT ![k] = [exists |-> TRUE, replicas |-> Int32Ptr(InitialReplicas)]]
        /\ external' = Append(external, ExternalEvent("create", k))
    /\ UNCHANGED <<impl, list, pc, store0, objExists, spec, persisted, obj, idx, count, errs, log, writes,
                   ret, prev, faulty>>

\* another client deletes an instance of the type while the call runs
ExternalDelete ==
    /\ impl = "DeleteResources" /\ pc \in {"list", "delete"}
    /\ Len(external) < MaxExternal
    /\ \E k \in TypeKeys :
        /\ store[k].exists
        /\ store' = [store EXCEPT ![k] = [exists |-> FALSE, replicas |-> NilPtr]]
        /\ external' = Append(external, ExternalEvent("delete", k))
    /\ UNCHANGED <<impl, list, pc, store0, objExists, spec, persisted, obj, idx, count, errs, log, writes,
                   ret, prev, faulty>>

InitDeleteMany ==
    /\ impl = "DeleteResources"
    /\ pc = "list"
    /\ store \in InitialStores
    /\ store0 = store
    /\ objExists = TRUE
    /\ spec \in [DryRun : BOOLEAN, Resources : {<<Item(g.Kind, "", "", ActionDelete)>> : g \in DeleteManyTypes}]
    /\ persisted = <<>>
    /\ obj = <<>>
    /\ idx = 1
    /\ count = 0
    /\ errs = <<>>
    /\ log = <<>>
    /\ writes = <<>>
    /\ ret = NotReturned
    /\ prev = NoPass
    /\ faulty = TRUE
    /\ list = <<>>
    /\ external = <<>>

NextDeleteMany ==
    \/ DeleteResourcesList
    \/ DeleteResourcesDelete
    \/ DeleteResourcesReturn
    \/ ExternalCreate
    \/ ExternalDelete

SpecDeleteMany == InitDeleteMany /\ [][NextDeleteMany]_vars

----------------------------------------------------------------------------
(* Properties *)

Last(seq) == seq[Len(seq)]

\* the pass went through its item loop (Reconcile or CleanupItems)
IsPass == impl \in {"Reconcile", "CleanupItems"}

\* some error recorded for item i contains the text
ItemErrorContains(i, text) == \E j \in 1..Len(log[i].errs) : Contains(log[i].errs[j], text)

\* item i of the pass made a store call that changes a cleanup target
ItemMutates(i) == \E c \in log[i].calls : c.op \in {"delete", "update"}

\* the last condition write of the pass was of the Complete type and was persisted
CompleteWritten == writes # <<>> /\ Last(writes).Type = "Complete" /\ Last(writes).ok

\* C1: a pass run with dryRun = true issues no Delete and no Update against any cleanup
\* target: every instance that existed before the pass still exists with the replica
\* count it had.
C1_DryRunLeavesStore ==
    (IsPass /\ spec.DryRun) =>
        /\ store = store0
        /\ \A i \in 1..Len(log) : ~ItemMutates(i)

\* a dry-run CleanupItems that returned after a scale item and a delete item had both counted
\* existing targets
C1_Witness ==
    /\ impl = "CleanupItems" /\ spec.DryRun /\ ret.done
    /\ Len(log) = 2
    /\ log[1].exec = "scale" /\ log[1].count = 1
    /\ log[2].exec = "delete" /\ log[2].count = 2

\* C2: the item loop never aborts early: whatever the items before it did, every item of
\* the list is attempted before the pass returns, and each attempted item either had its
\* executor invoked or recorded an error of its own.
C2_NeverAbortsEarly ==
    IsPass =>
        /\ \A i \in 1..Len(log) : log[i].exec # "none" \/ Len(log[i].errs) > 0
        /\ (ret.done /\ Len(log) > 0) => Len(log) = Len(spec.Resources)

\* a pass that returned after a first item that failed validation and a second item whose
\* executor ran and counted a target
C2_Witness ==
    /\ IsPass /\ ret.done /\ Len(spec.Resources) = 2 /\ Len(log) = 2
    /\ log[1].exec = "none" /\ Len(log[1].errs) > 0
    /\ log[2].exec # "none" /\ log[2].count > 0

ReturnsItemErrors ==
    /\ impl = "Reconcile" /\ pc \in {"return", "done"}
    /\ errs # <<>> /\ ret.err = Join(errs)

C4_PersistedBeforeReturn ==
    ReturnsItemErrors =>
        /\ writes # <<>>
        /\ Last(writes).Type = "Complete" /\ Last(writes).Reason = "CompletedWithErrors"
        /\ Last(writes).at = Len(spec.Resources)
        /\ HasCondition(persisted, "Complete")
        /\ FindStatusCondition(persisted, "Complete").Reason = "CompletedWithErrors"

\* the step that returns from a pass with item errors finds the Complete write done
\* and writes nothing itself
C4_ReturnWritesNothing ==
    (impl = "Reconcile" /\ errs # <<>> /\ ~ret.done /\ ret'.done) =>
        /\ writes # <<>> /\ Last(writes).Type = "Complete"
        /\ writes' = writes /\ persisted' = persisted

\* C4: in a pass where an item failed, Complete/CompletedWithErrors is persisted after
\* the last item and before the pass returns the items' error: the condition is already
\* persisted in the state from which the pass returns, and the return writes nothing.
C4_StatusBeforeError ==
    [](C4_PersistedBeforeReturn) /\ [][C4_ReturnWritesNothing]_vars

\* the state between the status write and the return of the items' error
C4_Witness ==
    /\ ReturnsItemErrors /\ pc = "return" /\ ~ret.done
    /\ Len(log) = 2 /\ log[1].errs # <<>>
    /\ FindStatusCondition(persisted, "Complete").Reason = "CompletedWithErrors"

\* C5: a Reconcile pass over an empty Resources list persists Complete/NoResources with
\* the message "No resources specified for processing", returns no error and makes no
\* call on any cleanup target.
C5_NoResources ==
    (impl = "Reconcile" /\ ret.done /\ Len(spec.Resources) = 0 /\ CompleteWritten) =>
        /\ FindStatusCondition(persisted, "Complete").Reason = "NoResources"
        /\ FindStatusCondition(persisted, "Complete").Message = "No resources specified for processing"
        /\ ret.err.nil
        /\ log = <<>> /\ store = store0

\* the types written so far by the sequence of UpdateCondition calls
WrittenTypes == {writes[i].Type : i \in 1..Len(writes)}

\* the latest write of a type
LastWriteOf(t) ==
    writes[CHOOSE i \in 1..Len(writes) :
              writes[i].Type = t /\ \A j \in (i + 1)..Len(writes) : writes[j].Type # t]

EntriesOf(conds, t) == {i \in 1..Len(conds) : conds[i].Type = t}

\* C6: after any sequence of UpdateCondition writes the conditions hold exactly one entry
\* per written Type, that entry carries the reason and message of the latest write of the
\* Type (so a write adds no entry for an existing Type and leaves the other Types alone);
\* the persisted conditions never hold two entries of one Type.
C6_OneEntryPerType ==
    /\ \A t \in ConditionTypes : Cardinality(EntriesOf(persisted, t)) <= 1
    /\ impl = "UpdateCondition" =>
          /\ Len(obj) = Cardinality(WrittenTypes)
          /\ \A t \in WrittenTypes :
                /\ Cardinality(EntriesOf(obj, t)) = 1
                /\ FindStatusCondition(obj, t)
                     = Condition(t, LastWriteOf(t).Reason, LastWriteOf(t).Message)

\* a Type written, another Type written, then the first Type written again with another reason
C6_Witness ==
    /\ impl = "UpdateCondition" /\ Len(writes) = 3 /\ Len(obj) = 2
    /\ writes[1].Type = writes[3].Type /\ writes[2].Type # writes[1].Type
    /\ writes[1].Reason # writes[3].Reason
    /\ writes[3].ok

C7_FailedWriteReturnsError ==
    /\ (impl = "Reconcile" /\ ret.done /\ \E i \in 1..Len(writes) : ~writes[i].ok) => ~ret.err.nil
    /\ (impl = "UpdateCondition" /\ writes # <<>>) => (Last(writes).ok <=> ret.err.nil)

C7_FailedWriteKeepsPersisted ==
    (writes' # writes /\ ~Last(writes').ok) => persisted' = persisted

\* C7: when a condition write fails (Initialized or Complete) the pass returns a non-nil
\* error; UpdateCondition returns a non-nil error and the failed write leaves the
\* persisted conditions of the object as they were.
C7_WriteFailureIsFatal ==
    [](C7_FailedWriteReturnsError) /\ [][C7_FailedWriteKeepsPersisted]_vars

\* an UpdateCondition call failed after an earlier call had persisted a condition
C7_Witness ==
    /\ impl = "UpdateCondition" /\ Len(writes) = 2
    /\ writes[1].ok /\ ~writes[2].ok
    /\ Len(persisted) = 1 /\ ~ret.err.nil

\* C8: an item with an empty Kind adds 0 to the count, makes no store access and records
\* an error containing "kind must be specified", whatever its other fields; CleanupItems
\* then returns an error containing that text.
C8_EmptyKind ==
    IsPass =>
        /\ \A i \in 1..Len(log) : spec.Resources[i].Kind = "" =>
              /\ log[i].count = 0
              /\ log[i].calls = {}
              /\ ItemErrorContains(i, "kind must be specified")
        /\ (impl = "CleanupItems" /\ ret.done /\ \E i \in 1..Len(spec.Resources) : spec.Resources[i].Kind = "")
              => (~ret.err.nil /\ Contains(ret.err.msg, "kind must be specified"))

\* CleanupItems returned after an item with an empty Kind and an item that counted a target
C8_Witness ==
    /\ impl = "CleanupItems" /\ ret.done /\ Len(log) = 2
    /\ spec.Resources[1].Kind = ""
    /\ log[2].count > 0 /\ ret.count > 0

\* the type catalog knows the kind
Resolves(kind) == KindFor(kind).ok \/ RESTMapping(ParseGroupKind(kind)).ok

\* C9 as stated: every item with an empty Action adds 0 to the count and records an error
\* containing "action must be specified", whatever its Kind.
C9_AsStated ==
    IsPass => \A i \in 1..Len(log) : spec.Resources[i].Action = "" =>
                 /\ log[i].count = 0
                 /\ ItemErrorContains(i, "action must be specified")

\* C9: an item with an empty Action adds 0 to the count, invokes no executor and records
\* exactly one error: "kind must be specified" when its Kind is empty, the lookup error
\* when its Kind does not resolve, and "action must be specified" when its Kind resolves
\* (unless the lookup itself failed).
C9_EmptyAction ==
    IsPass => \A i \in 1..Len(log) : spec.Resources[i].Action = "" =>
                 /\ log[i].count = 0 /\ log[i].exec = "none" /\ ~ItemMutates(i)
                 /\ Len(log[i].errs) = 1
                 /\ spec.Resources[i].Kind = "" => ItemErrorContains(i, "kind must be specified")
                 /\ (spec.Resources[i].Kind # "" /\ ~Resolves(spec.Resources[i].Kind))
                       => ItemErrorContains(i, "failed to lookup group and kind")
                 /\ (spec.Resources[i].Kind # "" /\ Resolves(spec.Resources[i].Kind))
                       => \/ ItemErrorContains(i, "action must be specified")
                          \/ ItemErrorContains(i, "failed to lookup group and kind")

\* an item with an empty Action and a Kind that resolved, its target present
C9_Witness ==
    /\ IsPass /\ ret.done /\ Len(log) = 1
    /\ spec.Resources[1].Action = "" /\ spec.Resources[1].Kind = "Deployment"
    /\ spec.Resources[1].Name = "d1" /\ Exists(store, Key("Deployment", "ns1", "d1"))
    /\ ItemErrorContains(1, "action must be specified")

\* C10: an item whose Action is non-empty and neither delete nor scaleToZero is never
\* acted on: it records an "unsupported action" error, adds 0 to the count and issues no
\* delete or update.
C10_UnsupportedAction ==
    IsPass => \A i \in 1..Len(log) :
                 spec.Resources[i].Action \notin {"", "delete", "scaleToZero"} =>
                     /\ log[i].count = 0
                     /\ ~ItemMutates(i)
                     /\ (spec.Resources[i].Kind # "" /\ Resolves(spec.Resources[i].Kind)
                            /\ ~ItemErrorContains(i, "failed to lookup group and kind"))
                           => ItemErrorContains(i, "unsupported action")

\* the store item i of the pass left behind
PostStore(i) == IF i < Len(log) THEN log[i + 1].pre ELSE store

\* item i made a call of the kind op
ItemCalls(i, op) == \E c \in log[i].calls : c.op = op

\* the kind the Kind of item i resolves to
\* LookupGroupKind and LookupCrdsByCategory, every call succeeding, tabulated over the
\* kinds and the categories of the inputs
ResolvedKindOf == [k \in {it.Kind : it \in AllItems \cup CoreItems} |-> LookupGroupKind({}, k).gvk.Kind]
TypesOfCategory == [c \in {it.Category : it \in AllItems \cup CoreItems} |-> CrdMatches(Crds, c)]

ResolvedKind(i) == ResolvedKindOf[spec.Resources[i].Kind]

\* item i is a category item: the condition of line 35 of DeleteItem
IsCategory(i) == ResolvedKind(i) = CustomResourceDefinitionKind /\ spec.Resources[i].Category # ""

\* item i went to DeleteNamedResource (cleanupNamedResource in Reconcile): a delete of a
\* named target that is no category delete
IsDeleteNamed(i) ==
    /\ log[i].exec = "delete"
    /\ spec.Resources[i].Name # ""
    /\ ~IsCategory(i)

\* the named target of item i
NamedTarget(i) == Key(ResolvedKind(i), spec.Resources[i].Namespace, spec.Resources[i].Name)

\* C11: DeleteNamed on a target that does not exist returns count 0 and a non-nil
\* error in dry-run and non-dry-run mode alike, and leaves the store unchanged.
C11_DeleteNamedAbsent ==
    IsPass => \A i \in 1..Len(log) :
        (IsDeleteNamed(i) /\ ~Exists(log[i].pre, NamedTarget(i))) =>
            /\ log[i].count = 0
            /\ log[i].errs # <<>>
            /\ ItemErrorContains(i, "failed to get")
            /\ ~ItemMutates(i)
            /\ PostStore(i) = log[i].pre

\* a dry-run CleanupItems whose delete item named a Deployment that does not exist, no call
\* having been made to fail
C11_Witness ==
    /\ impl = "CleanupItems" /\ spec.DryRun /\ ret.done /\ Len(log) = 1
    /\ IsDeleteNamed(1) /\ ResolvedKind(1) = "Deployment"
    /\ ~Exists(log[1].pre, NamedTarget(1))
    /\ ~log[1].faulted
    /\ ItemErrorContains(1, "not found")

\* the instances of the kind of item i that its namespace held when the item started
Matches(i) ==
    {k \in Keys : /\ k.kind = ResolvedKind(i)
                  /\ (spec.Resources[i].Namespace = "" \/ k.ns = spec.Resources[i].Namespace)
                  /\ log[i].pre[k].exists}

\* item i went to DeleteResources (cleanupResources in Reconcile) for the kind of the item
IsDeleteMany(i) ==
    /\ log[i].exec = "delete"
    /\ spec.Resources[i].Name = ""
    /\ ~IsCategory(i)

\* item i went to the list branch of ScaleItem (scaleToZero in Reconcile) on a supported kind
IsScaleMany(i) ==
    /\ log[i].exec = "scale"
    /\ spec.Resources[i].Name = ""
    /\ ResolvedKind(i) \in {DeploymentKind, StatefulSetKind}

\* C12: a bulk action over zero matching instances is a success: DeleteMany, and
\* ScaleItem with an empty Name on a supported kind, return (0, nil) and issue no
\* Delete or Update when the listing is empty, in dry-run and non-dry-run mode.
C12_ZeroMatchesSucceed ==
    IsPass => \A i \in 1..Len(log) :
        ((IsDeleteMany(i) \/ IsScaleMany(i)) /\ Matches(i) = {} /\ ~log[i].faulted) =>
            /\ log[i].count = 0
            /\ log[i].errs = <<>>
            /\ ItemCalls(i, "list")
            /\ ~ItemMutates(i)
            /\ PostStore(i) = log[i].pre

\* a non-dry-run CleanupItems that returned nil after a delete of every Deployment of a
\* namespace that held none
C12_Witness ==
    /\ impl = "CleanupItems" /\ ~spec.DryRun /\ ret.done /\ Len(log) = 1
    /\ IsDeleteMany(1) /\ ResolvedKind(1) = "Deployment"
    /\ Matches(1) = {} /\ ~log[1].faulted
    /\ ItemCalls(1, "list")
    /\ ret.count = 0 /\ ret.err.nil

\* the instances that item i found when it started and that are gone when it ended
Deleted(i) == {k \in Matches(i) : ~PostStore(i)[k].exists}

\* the listing made by item i succeeded
Listed(i) == ItemCalls(i, "list") /\ ~ItemErrorContains(i, "failed to list")

\* C13: non-dry-run DeleteMany attempts a delete on every listed instance even after
\* earlier deletes fail; the returned count is the number of deletes that succeeded,
\* the error is nil exactly when no delete failed, and when all succeed no instance
\* of the type remains in the namespace.
C13_DeleteManyAttemptsAll ==
    IsPass => \A i \in 1..Len(log) :
        (IsDeleteMany(i) /\ ~spec.DryRun /\ Listed(i)) =>
            /\ \A k \in Matches(i) : Call("delete", k) \in log[i].calls
            /\ log[i].count = Cardinality(Deleted(i))
            /\ (log[i].errs = <<>>) <=> (Deleted(i) = Matches(i))
            /\ (log[i].errs = <<>>) =>
                  \A k \in Keys : (k.kind = ResolvedKind(i)
                                   /\ (spec.Resources[i].Namespace = "" \/ k.ns = spec.Resources[i].Namespace))
                                  => ~PostStore(i)[k].exists

\* a non-dry-run delete of every Deployment in which the delete of the first of two
\* listed Deployments failed and the second one was deleted all the same
C13_Witness ==
    /\ impl = "CleanupItems" /\ ~spec.DryRun /\ ret.done /\ Len(log) = 1
    /\ IsDeleteMany(1) /\ Listed(1) /\ log[1].faulted
    /\ Matches(1) = {Key("Deployment", "ns1", "d1"), Key("Deployment", "ns1", "d2")}
    /\ Deleted(1) = {Key("Deployment", "ns1", "d2")}
    /\ log[1].count = 1
    /\ ItemErrorContains(1, "failed to delete ns1/d1")

\* item i went to ScaleItem (scaleToZero in Reconcile) with a kind that cannot be scaled
IsScaleUnsupported(i) ==
    /\ log[i].exec = "scale"
    /\ ResolvedKind(i) \notin {DeploymentKind, StatefulSetKind}

\* C14: ScaleItem on a resolved kind other than Deployment or StatefulSet returns
\* count 0 and an error before any store access: no list, get or update call is
\* made for that item, with or without a Name, in dry-run or not.
C14_ScaleUnsupportedKind ==
    IsPass => \A i \in 1..Len(log) :
        IsScaleUnsupported(i) =>
            /\ log[i].count = 0
            /\ log[i].errs # <<>>
            /\ ItemErrorContains(i, "not supported for kind " \o ResolvedKind(i))
            /\ \A c \in log[i].calls : c.op \notin {"list", "get", "update", "delete"}
            /\ PostStore(i) = log[i].pre

\* a non-dry-run CleanupItems that returned after a scaleToZero of every Service
C14_Witness ==
    /\ impl = "CleanupItems" /\ ~spec.DryRun /\ ret.done /\ Len(log) = 1
    /\ IsScaleUnsupported(1) /\ ResolvedKind(1) = "Service"
    /\ spec.Resources[1].Name = ""
    /\ ItemErrorContains(1, "scaling is not supported for kind Service")
    /\ ret.count = 0 /\ ~ret.err.nil

\* item i went to the named branch of ScaleItem (scaleToZero in Reconcile) on a supported kind
IsScaleNamed(i) ==
    /\ log[i].exec = "scale"
    /\ spec.Resources[i].Name # ""
    /\ ResolvedKind(i) \in {DeploymentKind, StatefulSetKind}

\* C15: after a non-dry-run pass with a scaleToZero item naming an existing Deployment
\* or StatefulSet that has N > 0 replicas, the stored replica field is 0 (the target
\* value, not cleared), the item contributes count 1, and the Complete condition is
\* CompletedSuccessfully.
C15_ScaledToZero ==
    (IsPass /\ ~spec.DryRun /\ ret.done) => \A i \in 1..Len(log) :
        (IsScaleNamed(i) /\ ~log[i].faulted /\ Exists(log[i].pre, NamedTarget(i))
            /\ log[i].pre[NamedTarget(i)].replicas # NilPtr
            /\ log[i].pre[NamedTarget(i)].replicas[1] > 0) =>
            /\ PostStore(i)[NamedTarget(i)].replicas = Int32Ptr(0)
            /\ log[i].count = 1
            /\ (impl = "Reconcile" /\ Len(log) = 1 /\ CompleteWritten) =>
                   Last(writes).Reason = "CompletedSuccessfully"

\* C16: ScaleNamed with a non-empty name fetches the target before deciding on
\* dry-run: for a target that does not exist it returns count 0 and a non-nil error
\* in dry-run mode as well as in non-dry-run mode.
C16_ScaleNamedAbsent ==
    IsPass => \A i \in 1..Len(log) :
        (IsScaleNamed(i) /\ ~Exists(log[i].pre, NamedTarget(i))) =>
            /\ log[i].count = 0
            /\ log[i].errs # <<>>
            /\ ItemCalls(i, "get")

\* the count of a pass over the items from the store s in which every store call succeeds:
\* the item loop of CleanupItems, or of Reconcile, run to its end
RECURSIVE PassCount(_, _, _, _)
PassCount(im, s, dryRun, items) ==
    IF items = <<>> THEN 0
    ELSE LET it == IF im = "Reconcile"
                   THEN ReconcileIter({}, s, dryRun, Head(items))
                   ELSE CleanupItemsIter({}, s, dryRun, Head(items))
         IN it.count + PassCount(im, it.store, dryRun, Tail(items))

\* the pass has returned and no call of it was made to fail
FaultFreePass == IsPass /\ ret.done /\ Len(log) = Len(spec.Resources)
                 /\ \A i \in 1..Len(log) : ~log[i].faulted

\* C17: for every item list and every initial store, the count of a pass with
\* dryRun = true equals the count of a pass with dryRun = false started from the same
\* initial store.
C17_DryRunSameCount ==
    FaultFreePass => count = PassCount(impl, store0, ~spec.DryRun, spec.Resources)

\* item i went to the category branch of DeleteItem (lines 124-144 of Reconcile)
IsDeleteCategory(i) == log[i].exec = "delete" /\ IsCategory(i)

\* the extension types whose categories hold the category of item i
MatchedTypes(i) == TypesOfCategory[spec.Resources[i].Category]

\* C18: a delete item whose Kind is the CustomResourceDefinition kind and whose
\* Category matches no extension type yields an error naming the category,
\* contributes count 0, and deletes nothing.
C18_CategoryWithoutTypes ==
    IsPass => \A i \in 1..Len(log) :
        (IsDeleteCategory(i) /\ MatchedTypes(i) = <<>>) =>
            /\ log[i].errs # <<>>
            /\ ItemErrorContains(i, "category " \o spec.Resources[i].Category)
            /\ ~log[i].faulted => ItemErrorContains(i, "no CRDs found for category "
                                                        \o spec.Resources[i].Category)
            /\ log[i].count = 0
            /\ ~ItemMutates(i)
            /\ PostStore(i) = log[i].pre

\* a non-dry-run CleanupItems that returned after a delete of the category "foo", which
\* no extension type has, on a store that holds instances of extension types
C18_Witness ==
    /\ impl = "CleanupItems" /\ ~spec.DryRun /\ ret.done /\ Len(log) = 1
    /\ IsDeleteCategory(1) /\ MatchedTypes(1) = <<>> /\ ~log[1].faulted
    /\ spec.Resources[1].Action = "delete"
    /\ spec.Resources[1].Category = "foo"
    /\ Exists(store0, Key("Widget", "ns1", "w1"))
    /\ ItemErrorContains(1, "no CRDs found for category foo")
    /\ ret.count = 0 /\ ~ret.err.nil

\* the instances of the matched types that the namespace of item i held when the item
\* started and that are gone when it ended: one per successful Delete, which is what
\* the DeleteResources calls of the item count in non-dry-run mode
DeletedOfCategory(i) ==
    {k \in Keys : /\ \E j \in 1..Len(MatchedTypes(i)) : k.kind = MatchedTypes(i)[j].Kind
                  /\ (spec.Resources[i].Namespace = "" \/ k.ns = spec.Resources[i].Namespace)
                  /\ log[i].pre[k].exists
                  /\ ~PostStore(i)[k].exists}

\* C19: for a category delete that matches one or more extension types, DeleteMany is
\* invoked once for every matched type in the item's namespace, and the count of the
\* item is the sum of the counts returned by all those calls, including the calls
\* that also returned an error.
C19_CategoryCountIsSum ==
    (IsPass /\ ~spec.DryRun) => \A i \in 1..Len(log) :
        (IsDeleteCategory(i) /\ MatchedTypes(i) # <<>>
            /\ ~ItemErrorContains(i, "failed to lookup CRDs")) =>
            /\ \A j \in 1..Len(MatchedTypes(i)) :
                  ListCall(MatchedTypes(i)[j], spec.Resources[i].Namespace) \in log[i].calls
            /\ log[i].count = Cardinality(DeletedOfCategory(i))

\* the sum of the counts of the first n items of the pass that recorded no error
RECURSIVE CleanCount(_)
CleanCount(n) ==
    IF n = 0 THEN 0
    ELSE CleanCount(n - 1) + (IF log[n].errs = <<>> THEN log[n].count ELSE 0)

\* C20: the total count returned by a pass equals the sum of the individual counts of
\* only those items that completed without recording an error: an item that recorded
\* an error adds nothing to the total.
C20_ErroredItemsAddNothing ==
    (IsPass /\ ret.done /\ Len(log) = Len(spec.Resources)) => count = CleanCount(Len(log))

\* the sum of the counts of the first n items of the pass
RECURSIVE AllCount(_)
AllCount(n) == IF n = 0 THEN 0 ELSE AllCount(n - 1) + log[n].count

\* some item of the pass recorded an error
SomeItemFailed == \E i \in 1..Len(log) : log[i].errs # <<>>

\* the errors the first n items of the pass recorded, in the order they were recorded
RECURSIVE RecordedErrors(_)
RecordedErrors(n) == IF n = 0 THEN <<>> ELSE RecordedErrors(n - 1) \o log[n].errs

\* the error returned by the pass holds the text of every error the items recorded: it
\* is their texts in order, one per line, after the count of them in CleanupItems
AggregatesAll ==
    LET es == RecordedErrors(Len(log)) IN
    es # <<>> =>
        /\ ~ret.err.nil
        /\ ret.err.msg = (IF impl = "CleanupItems"
                          THEN ToString(Len(es)) \o " errors occurred during processing: "
                          ELSE "") \o JoinMsgs(es)

\* C21: Process returns a non-nil error if and only if at least one item recorded an
\* error; in both cases it returns the count accumulated over all items, and the
\* error is a single aggregate of every recorded failure. (CleanupItems; the loop
\* inlined in Reconcile returns the same aggregate when its status write succeeds.)
C21_ProcessReturn ==
    /\ (impl = "CleanupItems" /\ ret.done) =>
          /\ (~ret.err.nil) <=> SomeItemFailed
          /\ ret.count = AllCount(Len(log))
          /\ AggregatesAll
    /\ (impl = "Reconcile" /\ ret.done /\ Len(log) > 0 /\ CompleteWritten) =>
          /\ (~ret.err.nil) <=> SomeItemFailed
          /\ AggregatesAll

\* a CleanupItems call that returned after two items that both recorded an error, one
\* of them having deleted an instance all the same
C21_Witness ==
    /\ impl = "CleanupItems" /\ ret.done /\ Len(log) = 2
    /\ log[1].errs # <<>> /\ log[2].errs # <<>>
    /\ log[1].errs # log[2].errs
    /\ ret.count = 1 /\ ~ret.err.nil
    /\ Contains(ret.err.msg, "2 errors occurred during processing")

\* the instances item i is aimed at that the store held when the item started
FoundTargets(i) == {k \in Targets(spec.Resources[i]) : Exists(log[i].pre, k)}

\* the number of targets found by the first n items of the pass
RECURSIVE FoundCount(_)
FoundCount(n) == IF n = 0 THEN 0 ELSE FoundCount(n - 1) + Cardinality(FoundTargets(n))

\* a Reconcile pass over a non-empty list has returned, no item recorded an error and
\* every status write succeeded
CleanPass ==
    /\ impl = "Reconcile" /\ ret.done /\ Len(log) > 0 /\ Len(log) = Len(spec.Resources)
    /\ ~SomeItemFailed
    /\ CompleteWritten /\ \A i \in 1..Len(writes) : writes[i].ok

\* C22: dry-run suppresses only mutations of cleanup targets: a dry-run pass over items
\* that all succeed still persists Complete/CompletedSuccessfully on the request
\* object and returns no error, with the same count as the targets found.
C22_DryRunStillReports ==
    (CleanPass /\ spec.DryRun) =>
        /\ store = store0
        /\ HasCondition(persisted, "Complete")
        /\ FindStatusCondition(persisted, "Complete").Reason = "CompletedSuccessfully"
        /\ ret.err.nil
        /\ count = FoundCount(Len(log))
        /\ FindStatusCondition(persisted, "Complete").Message
              = "Cleaned up " \o ToString(FoundCount(Len(log))) \o " resources"

\* the two strategies on every Kind of the inputs: the direct lookup, the lookup of the
\* name parsed as Kind.Group, and what LookupGroupKind returns when the mapper answers
DirectOf == [k \in {it.Kind : it \in AllItems \cup CoreItems} |-> KindFor(k)]
ParsedOf == [k \in {it.Kind : it \in AllItems \cup CoreItems} |-> RESTMapping(ParseGroupKind(k))]
LookupOf == [k \in {it.Kind : it \in AllItems \cup CoreItems} |-> LookupGroupKind({}, k)]

\* the store calls of item i
StoreCalls(i) == {c \in log[i].calls : c.op \in {"list", "get", "delete", "update"}}

\* C23: ResolveKind returns the result of the direct lookup whenever the direct lookup
\* succeeds; otherwise it returns the result of resolving the name parsed as
\* Kind.Group; it returns an error if and only if both strategies fail. Seen in a pass:
\* the item fails with the lookup error exactly when both fail, and otherwise its
\* store calls are made on the kind that the first succeeding strategy gives.
C23_ResolveKind ==
    IsPass => \A i \in 1..Len(log) :
        (spec.Resources[i].Kind # "" /\ ~log[i].faulted) =>
            LET kind == spec.Resources[i].Kind
                d == DirectOf[kind]
                p == ParsedOf[kind]
                l == LookupOf[kind]
                gvk == IF d.ok THEN d.gvk ELSE p.gvk
            IN /\ d.ok => (l.err.nil /\ l.gvk = d.gvk)
               /\ (~d.ok /\ p.ok) => (l.err.nil /\ l.gvk = p.gvk)
               /\ (~l.err.nil) <=> (~d.ok /\ ~p.ok)
               /\ ItemErrorContains(i, "failed to lookup group and kind for " \o kind)
                     <=> (~d.ok /\ ~p.ok)
               /\ (~d.ok /\ ~p.ok) => (log[i].exec = "none" /\ StoreCalls(i) = {})
               /\ ((d.ok \/ p.ok)
                     /\ ~(gvk.Kind = CustomResourceDefinitionKind /\ spec.Resources[i].Category # "")) =>
                     \A c \in StoreCalls(i) : c.key.kind = gvk.Kind

\* a non-dry-run CleanupItems that deleted Deployment ns1/d1 for an item whose Kind,
\* "Deployment.apps", only the second strategy resolves
C23_Witness ==
    /\ impl = "CleanupItems" /\ ~spec.DryRun /\ ret.done /\ Len(log) = 1
    /\ spec.Resources[1].Kind = "Deployment.apps"
    /\ ~DirectOf["Deployment.apps"].ok /\ ParsedOf["Deployment.apps"].ok
    /\ log[1].exec = "delete" /\ ~log[1].faulted
    /\ Call("delete", Key("Deployment", "ns1", "d1")) \in log[1].calls
    /\ Exists(store0, Key("Deployment", "ns1", "d1"))
    /\ ~Exists(store, Key("Deployment", "ns1", "d1"))
    /\ ret.count = 1 /\ ret.err.nil

\* LookupCrdsByCategory, the listing of the definitions succeeding, on every Category of
\* the inputs, and the definitions that declare a label equal to it ignoring case
CategoryResultOf ==
    [c \in {it.Category : it \in AllItems \cup CoreItems} |-> LookupCrdsByCategory({}, c)]
DeclaringOf ==
    [c \in {it.Category : it \in AllItems \cup CoreItems} |->
        {j \in 1..Len(Crds) :
            \E n \in 1..Len(Crds[j].Categories) : ToLower(Crds[j].Categories[n]) = ToLower(c)}]

\* C24: ResolveCategory returns exactly one TypeDescriptor for every extension type
\* definition that declares a category label equal to the requested category ignoring
\* letter case, with the definition's first declared version, and returns an empty
\* list without error when none matches. Seen in a pass: a category delete lists
\* exactly the kinds of those definitions.
C24_ResolveCategory ==
    IsPass => \A i \in 1..Len(log) :
        (IsDeleteCategory(i) /\ ~log[i].faulted) =>
            LET r == CategoryResultOf[spec.Resources[i].Category]
                D == DeclaringOf[spec.Resources[i].Category]
            IN /\ r.err.nil
               /\ Len(r.gvks) = Cardinality(D)
               /\ \A j \in D :
                     Cardinality({n \in 1..Len(r.gvks) :
                                     r.gvks[n] = GVK(Crds[j].Group, Crds[j].Versions[1], Crds[j].Kind)}) = 1
               /\ {c.key.kind : c \in {x \in log[i].calls : x.op = "list"}} = {Crds[j].Kind : j \in D}
               /\ ~ItemErrorContains(i, "failed to lookup CRDs")
               /\ (D = {}) <=> ItemErrorContains(i, "no CRDs found for category")

\* a non-dry-run CleanupItems that returned after a delete of the category "ALL", which
\* only Widget declares (as "all"): the Widgets are gone, the Gadget is still there
C24_Witness ==
    /\ impl = "CleanupItems" /\ ~spec.DryRun /\ ret.done /\ Len(log) = 1
    /\ IsDeleteCategory(1) /\ ~log[1].faulted
    /\ spec.Resources[1].Category = "ALL"
    /\ CategoryResultOf["ALL"].gvks = <<GVK("example.com", "v1", "Widget")>>
    /\ Exists(store0, Key("Widget", "ns1", "w1"))
    /\ ~Exists(store, Key("Widget", "ns1", "w1")) /\ ~Exists(store, Key("Widget", "ns1", "w2"))
    /\ Exists(store, Key("Gadget", "ns1", "g1"))
    /\ ret.count = 2 /\ ret.err.nil

\* C26: a successful non-dry-run DeleteNamed removes exactly the named instance: it
\* returns (1, nil), the named instance is absent afterwards, and every other instance
\* of the same kind and namespace, and of any other kind or namespace, is unchanged.
C26_DeleteNamedExactlyOne ==
    (IsPass /\ ~spec.DryRun) => \A i \in 1..Len(log) :
        (IsDeleteNamed(i) /\ log[i].errs = <<>>) =>
            /\ log[i].count = 1
            /\ Exists(log[i].pre, NamedTarget(i))
            /\ ~Exists(PostStore(i), NamedTarget(i))
            /\ \A k \in Keys \ {NamedTarget(i)} : PostStore(i)[k] = log[i].pre[k]
            /\ StoreCalls(i) = {Call("get", NamedTarget(i)), Call("delete", NamedTarget(i))}

\* a non-dry-run CleanupItems that deleted Deployment ns1/d1 by name from a store that
\* also held Deployment ns1/d2, which is still there
C26_Witness ==
    /\ impl = "CleanupItems" /\ ~spec.DryRun /\ ret.done /\ Len(log) = 1
    /\ IsDeleteNamed(1) /\ log[1].errs = <<>>
    /\ NamedTarget(1) = Key("Deployment", "ns1", "d1")
    /\ Exists(store0, Key("Deployment", "ns1", "d1")) /\ Exists(store0, Key("Deployment", "ns1", "d2"))
    /\ ~Exists(store, Key("Deployment", "ns1", "d1"))
    /\ store[Key("Deployment", "ns1", "d2")] = store0[Key("Deployment", "ns1", "d2")]
    /\ ret.count = 1 /\ ret.err.nil

\* the pass is at the point where it found no conditions on the object it fetched
AtInitialize == impl = "Reconcile" /\ pc = "init" /\ Len(obj) = 0

\* the step of lines 68-80 taken from AtInitialize: the Initialized write, then either
\* the return of its error or the re-read of the object, which ends the pass when the
\* object cannot be read any more
InitializeStep ==
    /\ writes' = Append(writes, Write("Initialized", "Reconciling", "Reconciliation started",
                                      Last(writes').ok, 0))
    /\ log' = log /\ store' = store
    /\ IF Last(writes').ok
       THEN /\ HasCondition(persisted', "Initialized")
            /\ FindStatusCondition(persisted', "Initialized").Reason = "Reconciling"
            /\ pc' = "items" => obj' = persisted'
            /\ pc' # "items" => (pc' = "done" /\ ret'.done)
       ELSE /\ persisted' = persisted
            /\ pc' = "done" /\ ret'.done /\ ~ret'.err.nil

\* C27: on a pass that starts with no conditions on the object, Initialized/Reconciling
\* is persisted and the object re-read before any item is processed; if that write
\* fails the pass returns the error with no item processed and no cleanup target read
\* or mutated.
C27_InitializedFirst ==
    /\ [](impl = "Reconcile" /\ pc \in {"start", "init"} => log = <<>> /\ store = store0)
    /\ [][AtInitialize => InitializeStep]_vars
    /\ []((impl = "Reconcile" /\ writes # <<>> /\ writes[1].Type = "Initialized" /\ ~writes[1].ok) =>
              /\ Len(writes) = 1 /\ log = <<>> /\ store = store0
              /\ ret.done /\ ~ret.err.nil)
    /\ []((impl = "Reconcile" /\ log # <<>>) =>
              /\ HasCondition(persisted, "Initialized")
              /\ \A j \in 1..Len(writes) : writes[j].Type = "Initialized" => (j = 1 /\ writes[j].ok))

\* a Reconcile pass that found no conditions, persisted Initialized before its first
\* item, processed the item and returned
C27_Witness ==
    /\ impl = "Reconcile" /\ ret.done /\ Len(writes) = 2
    /\ writes[1].Type = "Initialized" /\ writes[1].ok /\ writes[1].at = 0
    /\ writes[2].Type = "Complete" /\ writes[2].at = 1
    /\ Len(log) = 1 /\ log[1].count = 1
    /\ HasCondition(persisted, "Initialized")

\* the Type and Reason pairs the claim allows
AllowedConditions ==
    { <<"Initialized", "Reconciling">>,
      <<"Complete", "NoResources">>,
      <<"Complete", "CompletedSuccessfully">>,
      <<"Complete", "CompletedWithErrors">> }

\* C25: after any sequence of passes, every condition persisted on the request object
\* is either Type Initialized with Reason Reconciling, or Type Complete with Reason in
\* {NoResources, CompletedSuccessfully, CompletedWithErrors}; its Status is true, and no
\* other Type or Reason is ever written.
C25_ConditionVocabulary ==
    impl = "Reconcile" =>
        /\ \A j \in 1..Len(persisted) :
              /\ <<persisted[j].Type, persisted[j].Reason>> \in AllowedConditions
              /\ persisted[j].Status = "True"
        /\ \A j \in 1..Len(obj) :
              /\ <<obj[j].Type, obj[j].Reason>> \in AllowedConditions
              /\ obj[j].Status = "True"
        /\ \A j \in 1..Len(writes) : <<writes[j].Type, writes[j].Reason>> \in AllowedConditions

\* a pass that persisted CompletedSuccessfully over the CompletedWithErrors that the
\* pass before it had left, next to the Initialized condition of the first pass
C25_Witness ==
    /\ impl = "Reconcile" /\ ret.done
    /\ prev.some /\ prev.reason = "CompletedWithErrors"
    /\ Len(persisted) = 2
    /\ HasCondition(persisted, "Initialized") /\ HasCondition(persisted, "Complete")
    /\ FindStatusCondition(persisted, "Complete").Reason = "CompletedSuccessfully"

\* some item of a Reconcile pass over the items from the store s records an error even
\* though every call on the API server succeeds
RECURSIVE WouldFail(_, _)
WouldFail(s, items) ==
    IF items = <<>> THEN FALSE
    ELSE LET it == ReconcileIter({}, s, spec.DryRun, Head(items))
         IN it.errs # <<>> \/ WouldFail(it.store, Tail(items))

\* the Complete condition persisted on the object has the reason
CompleteReasonIs(reason) ==
    HasCondition(persisted, "Complete") /\ FindStatusCondition(persisted, "Complete").Reason = reason

\* a Reconcile pass over a non-empty list has returned an error and is waiting to be
\* called again, the API server has stopped failing, and no item fails any more
FailedButRecovered ==
    /\ impl = "Reconcile" /\ pc = "done" /\ ~ret.err.nil
    /\ Len(spec.Resources) > 0 /\ objExists /\ ~faulty
    /\ ~WouldFail(store, spec.Resources)

SettledSuccessfully ==
    /\ impl = "Reconcile" /\ pc = "done" /\ ret.err.nil
    /\ CompleteReasonIs("CompletedSuccessfully")

\* C28: CompletedWithErrors is not a terminal state: under a scheduler that fairly
\* re-invokes the pass after every non-nil error, once every item of the request stops
\* failing a later pass replaces the Complete condition's reason with
\* CompletedSuccessfully and returns no error; while some item keeps failing, every
\* pass returns a non-nil error and leaves the reason at CompletedWithErrors.
\* (A pass leaves the reason it writes when its Complete write succeeds; a pass with a
\* failed item never leaves CompletedSuccessfully by a write of its own.)
C28_NotTerminal ==
    /\ FailedButRecovered ~> SettledSuccessfully
    /\ (impl = "Reconcile" /\ pc = "done" /\ ~ret.err.nil) ~> (pc = "start")
    /\ []((impl = "Reconcile" /\ ret.done /\ Len(log) > 0 /\ SomeItemFailed) =>
             /\ ~ret.err.nil
             /\ ~CompleteReasonIs("CompletedSuccessfully") \/ ~Last(writes).ok
             /\ (CompleteWritten => CompleteReasonIs("CompletedWithErrors")))
    /\ []((impl = "Reconcile" /\ ret.done /\ Len(log) > 0 /\ WouldFail(store0, spec.Resources)) =>
             ~ret.err.nil)

\* a pass that returned nil and persisted CompletedSuccessfully after the pass before it
\* had returned an error and left CompletedWithErrors
C28_Witness ==
    /\ SettledSuccessfully /\ ~faulty /\ Len(log) > 0
    /\ prev.some /\ ~prev.err.nil /\ prev.reason = "CompletedWithErrors"
    /\ CompleteWritten /\ Last(writes).Reason = "CompletedSuccessfully"

\* the instances the scaleToZero items of the pass were aimed at
ScaleTargets ==
    UNION {IF spec.Resources[i].Name # "" THEN {NamedTarget(i)} ELSE Matches(i) : i \in 1..Len(log)}

\* a non-dry-run pass has returned whose items were all scaleToZero items on a supported
\* kind, the named ones naming an instance the store held
ScalePass ==
    /\ IsPass /\ ~spec.DryRun /\ ret.done
    /\ Len(log) > 0 /\ Len(log) = Len(spec.Resources)
    /\ \A i \in 1..Len(log) :
          \/ IsScaleNamed(i) /\ Exists(log[i].pre, NamedTarget(i))
          \/ IsScaleMany(i)

\* the pass before this one ran over the same items and returned no error
AfterCleanPass == prev.some /\ prev.err.nil /\ prev.store = store0

\* no call of the pass was made to fail: neither a call of an item nor a status write
PassUnfaulted ==
    /\ \A i \in 1..Len(log) : ~log[i].faulted
    /\ \A w \in 1..Len(writes) : writes[w].ok

\* C29: scale-to-zero is idempotent across passes: re-running a non-dry-run pass whose
\* items are scaleToZero on existing Deployments/StatefulSets, after a pass that already
\* zeroed them, again returns the same count with no error and leaves the store
\* unchanged (replicas stay 0).
C29_ScaleIdempotent ==
    (ScalePass /\ AfterCleanPass /\ PassUnfaulted) =>
        /\ count = prev.count /\ ret.count = prev.count
        /\ ret.err.nil
        /\ store = store0
        /\ \A k \in ScaleTargets :
              store0[k].replicas = Int32Ptr(0) => store[k].replicas = Int32Ptr(0)
        /\ impl = "CleanupItems" => \A k \in ScaleTargets : store[k].replicas = Int32Ptr(0)

\* a second CleanupItems pass scaled a Deployment that the first pass had brought from
\* its replicas to 0
C29_Witness ==
    /\ ScalePass /\ AfterCleanPass /\ PassUnfaulted
    /\ impl = "CleanupItems" /\ prev.count > 0
    /\ \E i \in 1..Len(log) :
          /\ IsScaleNamed(i) /\ spec.Resources[i].Kind = "Deployment"
          /\ log[i].pre[NamedTarget(i)].replicas = Int32Ptr(0)
          /\ \E c \in log[i].calls : c.op = "update"

\* the items of the list that are a delete of a named target which a pass before this
\* one has deleted
Redeleted ==
    {i \in 1..Len(spec.Resources) :
        /\ spec.Resources[i].Action = "delete" /\ spec.Resources[i].Name # ""
        /\ ~IsCategory(i)
        /\ NamedTarget(i) \in prev.deleted}

\* a later pass over a list with a named delete whose target an earlier pass deleted
LaterPass == IsPass /\ Redeleted # {}

\* C30: named delete is not idempotent across passes: after a non-dry-run pass has
\* successfully deleted a named target, every later pass over the same item list (with
\* no external re-creation of the target) records an error for that item, returns a
\* non-nil error and sets Complete to CompletedWithErrors, so the request never settles
\* at CompletedSuccessfully. (Every later pass that reaches the item; a later pass
\* whose Complete write succeeds sets the reason; a later Reconcile that gets any
\* answer for the request returns an error, and the failed pass is called again.)
C30_NamedDeleteNotIdempotent ==
    /\ [](LaterPass => \A i \in Redeleted :
             /\ ~Exists(store, NamedTarget(i))
             /\ (i <= Len(log) /\ ~log[i].faulted) =>
                    (log[i].count = 0 /\ ItemErrorContains(i, "not found"))
             /\ (i <= Len(log)) => (log[i].errs # <<>>))
    /\ []((LaterPass /\ ret.done /\ Len(log) > 0) =>
             /\ ~ret.err.nil
             /\ ((impl = "Reconcile" /\ CompleteWritten) => CompleteReasonIs("CompletedWithErrors")))
    /\ []((LaterPass /\ impl = "Reconcile") => []((pc = "done" /\ objExists) => ~ret.err.nil))
    /\ []((LaterPass /\ impl = "Reconcile") => []~(SettledSuccessfully /\ objExists))
    /\ (LaterPass /\ impl = "Reconcile" /\ pc = "done") ~> (pc = "start")

\* a Reconcile pass that deleted a named Deployment left CompletedSuccessfully, and the
\* pass after it found the target gone, returned an error and left CompletedWithErrors
C30_Witness ==
    /\ impl = "Reconcile" /\ pc = "done" /\ LaterPass
    /\ prev.err.nil /\ prev.reason = "CompletedSuccessfully" /\ prev.count = 1
    /\ Len(log) = Len(spec.Resources) /\ PassUnfaulted
    /\ ~ret.err.nil /\ CompleteWritten /\ CompleteReasonIs("CompletedWithErrors")


\* the listed instances of item i whose scaling failed: the error of the item names them
FailedScales(i) ==
    {k \in Matches(i) : ItemErrorContains(i, "failed to scale " \o k.ns \o "/" \o k.name)}

\* the value the scaling of the pass stores in the replica field
ScaleTarget == IF impl = "Reconcile" THEN NilPtr ELSE Int32Ptr(0)

\* C31: ScaleItem with an empty Name on a supported kind attempts to scale every listed
\* instance even after earlier ones fail; the returned count is the number of
\* instances scaled successfully and the returned error is nil exactly when none
\* failed.
C31_ScaleManyAttemptsAll ==
    IsPass => \A i \in 1..Len(log) :
        (IsScaleMany(i) /\ Listed(i)) =>
            /\ ~spec.DryRun => \A k \in Matches(i) : Call("get", k) \in log[i].calls
            /\ log[i].count = Cardinality(Matches(i) \ FailedScales(i))
            /\ (log[i].errs = <<>>) <=> (FailedScales(i) = {})
            /\ Len(log[i].errs) <= 1
            /\ ~spec.DryRun => \A k \in Matches(i) :
                  IF k \in FailedScales(i)
                  THEN PostStore(i)[k] = log[i].pre[k]
                  ELSE /\ Call("update", k) \in log[i].calls
                       /\ PostStore(i)[k].replicas = ScaleTarget

\* the scaling of the first of two listed Deployments failed and the second was scaled
C31_Witness ==
    /\ IsPass /\ ~spec.DryRun
    /\ \E i \in 1..Len(log) :
          /\ IsScaleMany(i) /\ Listed(i)
          /\ Matches(i) = {Key("Deployment", "ns1", "d1"), Key("Deployment", "ns1", "d2")}
          /\ FailedScales(i) = {Key("Deployment", "ns1", "d1")}
          /\ log[i].pre[Key("Deployment", "ns1", "d2")].replicas = Int32Ptr(InitialReplicas)
          /\ PostStore(i)[Key("Deployment", "ns1", "d2")].replicas = ScaleTarget
          /\ log[i].count = 1 /\ log[i].errs # <<>>


\* the item ran beside the same item without its Category, its Kind is set and does not
\* resolve to the CustomResourceDefinition kind, and its action is delete or scaleToZero
OtherKindBesideNoCategory ==
    /\ pc = "category"
    /\ spec.Resources[1].Kind # ""
    /\ ResolvedKind(1) # CustomResourceDefinitionKind
    /\ spec.Resources[1].Action \in {ActionDelete, ActionScaleToZero}

\* C32: Category is ignored unless the resolved kind is the CustomResourceDefinition
\* kind: for every item whose kind is any other kind, the count, the error and the
\* resulting store are the same as for the identical item with Category empty, for
\* delete and for scaleToZero.
C32_CategoryIgnored ==
    OtherKindBesideNoCategory =>
        /\ count = prev.count
        /\ Join(errs) = prev.err
        /\ store = prev.store

\* a delete of every Deployment of the namespace, with a Category that extension types
\* declare, deleted the Deployments and nothing else
C32_Witness ==
    /\ OtherKindBesideNoCategory
    /\ spec.Resources[1].Kind = "Deployment" /\ spec.Resources[1].Category = "managed"
    /\ spec.Resources[1].Action = ActionDelete /\ spec.Resources[1].Name = ""
    /\ ~spec.DryRun /\ count = 2
    /\ store0[Key("Widget", "ns1", "w1")].exists /\ store[Key("Widget", "ns1", "w1")].exists
    /\ ~store[Key("Deployment", "ns1", "d1")].exists


\* the store before item j of the pass, and after the last item for j = Len(log) + 1
StoreAt(j) == IF j <= Len(log) THEN log[j].pre ELSE store

\* what was deleted or updated before an item of the pass is still so after it, and so
\* from item to item until the pass returns: a deleted instance stays deleted, a replica
\* field that was changed keeps its value while the instance exists
NoRollback ==
    \A i \in 2..Len(log) :
        LET a == StoreAt(i)
            b == StoreAt(i + 1)
        IN a = b \/ \A k \in Keys :
            /\ (store0[k].exists /\ ~a[k].exists) => ~b[k].exists
            /\ (a[k].replicas # store0[k].replicas /\ b[k].exists) =>
                   b[k].replicas = a[k].replicas

\* every Delete and Update item i issued either took effect or is named in the error of
\* the item; asked of the item that ran last, which every item is in the state its
\* iteration leaves, and whose effects are then those the store shows
AttemptsKeptOrReported(i) ==
    LET post == PostStore(i) IN
    \A c \in log[i].calls :
        c.key \in Keys =>
            /\ (c.op = "delete" /\ post[c.key].exists) =>
                   ItemErrorContains(i, "failed to delete " \o c.key.ns \o "/" \o c.key.name)
            /\ (c.op = "update" /\ post[c.key].replicas # ScaleTarget) =>
                   ItemErrorContains(i, "failed to scale " \o c.key.ns \o "/" \o c.key.name)

\* some item of the pass changed the store and a later item, or the same one at another
\* instance, recorded an error
FailedAfterMutation ==
    \E i \in 1..Len(log) : \E j \in i..Len(log) :
        /\ PostStore(i) # log[i].pre
        /\ log[j].errs # <<>> /\ log[j].faulted

\* C33: a pass never rolls back: when a store operation fails (including by
\* cancellation) at item i or at an instance inside a bulk action, every delete and
\* update that already completed earlier in the same pass remains in the store when
\* the pass returns, and the failure is recorded as an ordinary per-item error.
C33_NoRollback ==
    IsPass =>
        /\ log # <<>> => store0 = log[1].pre
        /\ NoRollback
        /\ log # <<>> => AttemptsKeptOrReported(Len(log))
        /\ \A i \in 1..Len(log) :
              (ret.done /\ log[i].errs # <<>>) =>
                    /\ Len(log) = Len(spec.Resources)
                    /\ ~ret.err.nil
                    /\ \A e \in 1..Len(log[i].errs) : \E j \in 1..Len(errs) : errs[j] = log[i].errs[e]
                    /\ (impl = "CleanupItems" => AggregatesAll)

\* a pass of two items scaled a Deployment with its first item; in its second item, a
\* delete of all Deployments, the Delete of that Deployment failed and the other
\* Deployment was deleted; the pass returned an error and the store keeps both changes
C33_Witness ==
    /\ impl = "CleanupItems" /\ ret.done /\ ~ret.err.nil /\ Len(log) = 2
    /\ FailedAfterMutation
    /\ log[1].exec = "scale" /\ log[1].errs = <<>>
    /\ log[2].exec = "delete" /\ log[2].errs # <<>> /\ log[2].count = 1
    /\ store[Key("Deployment", "ns1", "d1")].exists
    /\ store[Key("Deployment", "ns1", "d1")].replicas = Int32Ptr(0)
    /\ store0[Key("Deployment", "ns1", "d2")].exists /\ ~store[Key("Deployment", "ns1", "d2")].exists


\* C34: every item adds at most one entry to the pass's error set, and an item with an
\* empty Kind or an empty Action adds exactly one: the number of errors a pass reports
\* never exceeds the number of items in the list.
C34_OneErrorPerItem ==
    IsPass =>
        /\ \A i \in 1..Len(log) :
              /\ Len(log[i].errs) <= 1
              /\ (spec.Resources[i].Kind = "" \/ spec.Resources[i].Action = "") =>
                     (Len(log[i].errs) = 1 /\ log[i].count = 0)
        /\ Len(errs) <= Len(log)


\* C35: the item-processing loop inlined in Reconcile and CleanupService.CleanupItems
\* are equivalent: for every item list, dry-run flag and initial store, they leave the
\* same resource store, compute the same count, and one reports an error if and only
\* if the other does.
C35_LoopsEquivalent ==
    pc = "impl" =>
        /\ store = prev.store
        /\ count = prev.count
        /\ (errs = <<>>) <=> prev.err.nil


\* the instances the List of the call returned
ListedKeys == {list[i] : i \in 1..Len(list)}

\* the last thing another client did to the instance, after the List, was to create it
CreatedAfterList(k) ==
    \E i \in 1..Len(external) :
        /\ external[i].key = k /\ external[i].op = "create" /\ external[i].listed
        /\ \A j \in (i + 1)..Len(external) : external[j].key # k

\* another client removed the instance of Delete call i after the List and before that call
RemovedBeforeDelete(i) ==
    \E e \in 1..Len(external) :
        /\ external[e].key = log[i].key /\ external[e].op = "delete"
        /\ external[e].listed /\ external[e].at <= i

\* C36: with external processes creating and deleting instances while DeleteMany runs:
\* DeleteMany issues Delete only for instances returned by its single List call; an
\* instance removed externally between the List and its Delete is recorded as a
\* per-instance failure (not counted, error non-nil); an instance created after the
\* List survives, so DeleteMany can return no error while instances of the type
\* remain.
C36_DeleteManyConcurrent ==
    impl = "DeleteResources" =>
        /\ Len(log) <= Len(list)
        /\ \A i \in 1..Len(log) :
              /\ log[i].key = list[i]
              /\ ~log[i].found => (~log[i].ok /\ RemovedBeforeDelete(i))
              /\ (ret.done /\ ~log[i].ok) =>
                    /\ ~ret.err.nil
                    /\ Contains(ret.err.msg, "failed to delete " \o log[i].key.ns \o "/" \o log[i].key.name)
        /\ count = Cardinality({i \in 1..Len(log) : log[i].ok})
        /\ (ret.done /\ ~spec.DryRun /\ ret.err.nil) =>
              (Len(log) = Len(list) /\ ret.count = Len(list))
        /\ spec.DryRun => log = <<>>
        /\ \A k \in TypeKeys :
              (CreatedAfterList(k) /\ k \notin ListedKeys) => store[k].exists

\* DeleteResources listed one Deployment, another client created a second one after the
\* List, and the call returned count 1 and no error while the second one exists
C36_Witness ==
    /\ impl = "DeleteResources" /\ ret.done /\ ~spec.DryRun
    /\ ret.err.nil /\ ret.count = 1 /\ Len(list) = 1
    /\ \E k \in TypeKeys : CreatedAfterList(k) /\ k \notin ListedKeys /\ store[k].exists


\* a non-dry-run DeleteResources call whose List succeeded has returned
DeleteManyReturned ==
    /\ impl = "DeleteResources" /\ ret.done /\ ~spec.DryRun
    /\ ~Contains(ret.err.msg, "failed to list")

\* the Delete calls of the loop that returned an error
FailedDeletes == {i \in 1..Len(log) : ~log[i].ok}

\* C37: non-dry-run DeleteMany conserves instances: the returned count plus the number
\* of failed deletes equals the number of instances listed, so 0 <= count <= number
\* listed, and the count equals the number listed exactly when the returned error is
\* nil. (The number listed is that of a List that succeeded.)
C37_DeleteManyConserves ==
    DeleteManyReturned =>
        /\ ret.count + Cardinality(FailedDeletes) = Len(list)
        /\ Cardinality(FailedDeletes) = Len(errs)
        /\ 0 <= ret.count /\ ret.count <= Len(list)
        /\ (ret.count = Len(list)) <=> ret.err.nil

\* of two listed instances one Delete failed and one succeeded
C37_Witness ==
    /\ DeleteManyReturned
    /\ Len(list) = 2 /\ ret.count = 1 /\ Cardinality(FailedDeletes) = 1 /\ ~ret.err.nil


\* the instances of the extension types matched by the category of item i, in the
\* namespace of the item
CategoryInstances(i) ==
    {k \in Keys : /\ \E j \in 1..Len(MatchedTypes(i)) : k.kind = MatchedTypes(i)[j].Kind
                  /\ (spec.Resources[i].Namespace = "" \/ k.ns = spec.Resources[i].Namespace)}

\* the calls item i made on objects of the store
ObjectCalls(i) == {c \in log[i].calls : c.op \in {"get", "list", "delete", "update"}}

\* C38: in the category branch of DeleteItem (kind is CustomResourceDefinition and
\* Category is set) the item's Name is ignored and the CustomResourceDefinition objects
\* themselves are never deleted: only instances of the matched types in the item's
\* namespace are deleted, all of them even when a Name is given. Stated of the item that
\* ran last, which every item of a pass is in the state its iteration leaves.
C38_CategoryBranch ==
    (IsPass /\ log # <<>>) =>
        LET i == Len(log) IN
        IsDeleteCategory(i) =>
            LET instances == CategoryInstances(i)
                post == PostStore(i)
            IN
            /\ \A c \in ObjectCalls(i) :
                  /\ c.op \in {"list", "delete"}
                  /\ c.key.kind # CustomResourceDefinitionKind
                  /\ \E j \in 1..Len(MatchedTypes(i)) : c.key.kind = MatchedTypes(i)[j].Kind
                  /\ c.op = "delete" => c.key \in instances
            /\ \A k \in Keys : post[k] # log[i].pre[k] =>
                  (k \in instances /\ ~post[k].exists)
            /\ (~spec.DryRun /\ ~log[i].faulted) =>
                  /\ \A k \in instances : ~post[k].exists
                  /\ log[i].count = Cardinality({k \in instances : log[i].pre[k].exists})
            /\ ~spec.DryRun =>
                  \A k \in instances : post[k].exists => log[i].errs # <<>>

\* a category delete that names an instance, d1, deleted every instance of the two types
\* of the category
C38_Witness ==
    /\ IsPass /\ ~spec.DryRun /\ Len(log) = 1
    /\ IsDeleteCategory(1) /\ spec.Resources[1].Name = "d1" /\ ~log[1].faulted
    /\ log[1].count = 3 /\ log[1].errs = <<>>
    /\ \A k \in CategoryInstances(1) : log[1].pre[k].exists /\ ~store[k].exists
    /\ store = [k \in Keys |-> IF k \in CategoryInstances(1)
                                THEN [exists |-> FALSE, replicas |-> NilPtr] ELSE store0[k]]


\* a Reconcile call that has returned
PassEnded == impl = "Reconcile" /\ pc = "done"

\* every condition write of the pass reached the store
AllWritesOk == \A i \in 1..Len(writes) : writes[i].ok

\* lines 62-66 fetched the object: obj holds what was fetched, and with nothing fetched
\* yet lines 68-69 add Initialized to it
ReadObject == obj # <<>>

\* lines 76-79: the pass ended at the fetch that follows the Initialized write, with the
\* object gone or with the error of the fetch
RereadFailed ==
    /\ Len(writes) = 1 /\ writes[1].Type = "Initialized" /\ writes[1].ok
    /\ \/ ~objExists /\ ret.err.nil
       \/ ~ret.err.nil /\ ret.err.msg = "store error"

\* lines 349-361: no step takes a persisted Initialized or Complete condition away
ConditionsKept ==
    \A t \in {"Initialized", "Complete"} :
        HasCondition(persisted, t) => HasCondition(persisted', t)

\* C39 as stated: every pass that fetched the object, whose condition writes all reached
\* the store and whose object is still there, ends with a Complete condition persisted
C39_AsStated ==
    (PassEnded /\ ReadObject /\ AllWritesOk /\ objExists)
        => HasCondition(persisted, "Complete")

\* C39: a pass that fetched the object and whose condition writes all reached the store
\* ends with a Complete condition persisted, unless the fetch after the Initialized
\* write failed: then it ends with the object gone or with the error of that fetch, which
\* calls Reconcile again; and no step of any pass removes a persisted Initialized or
\* Complete condition
C39_CompleteUnlessRereadFailed ==
    /\ [](PassEnded /\ ReadObject /\ AllWritesOk
            => HasCondition(persisted, "Complete") \/ RereadFailed)
    /\ [][ConditionsKept]_vars

\* a later pass ended with all its writes done, Complete persisted and the Initialized
\* condition of an earlier pass still there
C39_Witness ==
    /\ PassEnded /\ ReadObject /\ AllWritesOk /\ prev.some
    /\ writes # <<>> /\ Last(writes).Type = "Complete"
    /\ HasCondition(persisted, "Complete") /\ HasCondition(persisted, "Initialized")


\* lines 62-66 and 76-79: the object was not there when the pass fetched it, at the
\* start or after the Initialized write
ObjectMissing == impl = "Reconcile" /\ ~objExists

\* lines 62-66: the first fetch itself failed, and its error is what the pass returned
GetFailed == writes = <<>> /\ ~ret.err.nil /\ ret.err.msg = "store error"

\* lines 68-73: the conditions the pass wrote are the Initialized one at most
InitializedAtMost ==
    \/ writes = <<>>
    \/ Len(writes) = 1 /\ writes[1].Type = "Initialized"

\* C40: a pass whose object does not exist when it is fetched, at the start or after the
\* Initialized write, runs no iteration of the item loop, leaves every cleanup target
\* as it found it, writes no condition after the Initialized one and, once the fetch was
\* answered, returns no error
C40_MissingObject ==
    ObjectMissing =>
        /\ log = <<>> /\ idx = 1 /\ count = 0 /\ errs = <<>>
        /\ store = store0
        /\ InitializedAtMost
        /\ ~HasCondition(obj, "Complete")
        /\ pc = "done" => ret.count = 0 /\ (ret.err.nil \/ GetFailed)

\* the object disappeared after the Initialized write: the pass returned nil with items
\* in its list and targets in the store, none of them touched
C40_Witness ==
    /\ ObjectMissing /\ pc = "done" /\ ret.err.nil
    /\ Len(writes) = 1 /\ writes[1].Type = "Initialized" /\ writes[1].ok
    /\ Len(spec.Resources) > 0 /\ ~spec.DryRun
    /\ \E k \in Keys : store[k].exists

====
